---- MODULE Spec2Model ----
(***************************************************************************)
(* Real-time notification core of formio-mcp: the Streaming Connection     *)
(* Registry (SSEManager), the Form Update Router (FormUpdateNotifier) and  *)
(* the preview-updates route that ties them together.                      *)
(*                                                                         *)
(* Time is a discrete clock `now`; one unit is one millisecond of the      *)
(* wall clock read by `new Date()`.  Timers created by setTimeout fire at  *)
(* or after their due time, never before it.                               *)
(***************************************************************************)
EXTENDS Integers, Sequences, FiniteSets, TLC

\* ---------------------------------------------------------------- bounds
MaxTime == 2                 \* the clock stops advancing here
DebounceInterval == 1        \* FormUpdateNotifier.debounceInterval
IdleTimeout == 1             \* FormUpdateNotifier.idleTimeout
MaxPreviewConnections == 1   \* PreviewUpdatesRouteOptions.maxPreviewConnections
MaxInflight == 1             \* handleRequest calls waiting for a tool request
MaxDispatches == 2           \* dispatches whose frames are followed
MaxSignals == 3              \* SIGINT / SIGTERM signals received

\* ------------------------------------------------------------ value sets
Conns == {"c1", "c2"}               \* connection ids (randomUUID values)
Forms == {"f1", "f2"}               \* form ids; the route rejects "" (400)
Payloads == {"p1", "p2"}            \* formData arguments
None == "undefined"                 \* JavaScript undefined / null
WriteOutcomes == {"ok", "full", "throw"}   \* res.write: true, false, throws

\* ------------------------------------------------------- Map<K,V> helpers
MapGet(m, k) == IF k \in DOMAIN m THEN m[k] ELSE None
MapSet(m, k, v) == [x \in (DOMAIN m) \cup {k} |-> IF x = k THEN v ELSE m[x]]
MapDelete(m, k) == [x \in (DOMAIN m) \ {k} |-> m[x]]
EmptyMap == [x \in {} |-> None]

\* JavaScript truthiness of a string-or-undefined value: `if (v)`
Truthy(v) == v # None /\ v # ""

\* Array.from(set): the elements of a Set as an array without repetition
RECURSIVE ArrayFrom(_)
ArrayFrom(S) ==
  IF S = {} THEN <<>>
  ELSE LET x == CHOOSE y \in S : TRUE IN <<x>> \o ArrayFrom(S \ {x})

VARIABLES
  now,                   \* wall clock
  connections,           \* SSEManager.connections (its key set)
  heartbeatInterval,     \* SSEManager.heartbeatInterval # null
  liveHeartbeats,        \* setInterval timers of startHeartbeat not yet cleared
  res,                   \* per connection id: state of its response stream
  formWatchers,          \* FormUpdateNotifier.formWatchers
  connectionForms,       \* FormUpdateNotifier.connectionForms
  connectionActivity,    \* FormUpdateNotifier.connectionActivity
  pendingNotifications,  \* FormUpdateNotifier.pendingNotifications
  timers,                \* live setTimeout handles of debounceNotification
  idleCheckInterval,     \* FormUpdateNotifier.idleCheckInterval # null
  inflight,              \* handleRequest calls awaiting their handler
  lastNotify,            \* the notify call or timer callback of the last step
  lastRegister,          \* the registerPreviewConnection call of the last step
  lastCall,              \* the Registry or Bridge operation of the last step
  burst,                 \* per form: the notifyFormUpdated calls not yet dispatched
  dispatches,            \* the sendNotification runs that reached watchers, in order
  streams,               \* per connection id: the frames written to its stream
  upstream,              \* the forms of the Form.io server, by form id
  tool,                  \* the update_form or delete_form call being handled
  relay,                 \* the change notification of the tool call being handled
  client,                \* per preview page: its FormPreviewClient
  shutdown,              \* the signal handling of the HTTP server process
  atCall                 \* per form: its watchers at the latest notifyFormUpdated

vars == <<now, connections, heartbeatInterval, liveHeartbeats, res,
          formWatchers, connectionForms, connectionActivity,
          pendingNotifications, timers, idleCheckInterval, inflight,
          lastNotify, lastRegister, lastCall, burst, dispatches, streams,
          upstream, tool, relay, client, shutdown, atCall>>

\* ---------------------------------------------------------------- Router
\* The three indices of the Router as one value, for the pure operators.
Router == [formWatchers |-> formWatchers,
           connectionForms |-> connectionForms,
           connectionActivity |-> connectionActivity]

\* getConnectionsByForm(formId)
GetConnectionsByForm(R, formId) ==
  IF formId \in DOMAIN R.formWatchers THEN ArrayFrom(R.formWatchers[formId])
  ELSE <<>>

\* getFormByConnection(connectionId)
GetFormByConnection(R, connectionId) == MapGet(R.connectionForms, connectionId)

\* A removal that leaves a set that became empty in the forward index.
RemoveWatcherKeepEmpty(fw, formId, connectionId) ==
  IF formId \in DOMAIN fw
  THEN MapSet(fw, formId, fw[formId] \ {connectionId})
  ELSE fw

\* unregisterPreviewConnection: "Remove from formWatchers", with the
\* clean-up of a set that became empty.
RemoveWatcher(fw, formId, connectionId) ==
  IF formId \in DOMAIN fw
  THEN LET watchers == fw[formId] \ {connectionId}
       IN IF Cardinality(watchers) = 0 THEN MapDelete(fw, formId)
          ELSE MapSet(fw, formId, watchers)
  ELSE fw

\* An unregistration that leaves the activity entry behind.
UnregisterKeepsActivity(R, connectionId) ==
  LET formId == MapGet(R.connectionForms, connectionId)
  IN IF ~Truthy(formId) THEN R
     ELSE [R EXCEPT !.formWatchers = RemoveWatcher(@, formId, connectionId),
                    !.connectionForms = MapDelete(@, connectionId)]

\* unregisterPreviewConnection(connectionId)
UnregisterPreviewConnection(R, connectionId) ==
  LET formId == MapGet(R.connectionForms, connectionId)
  IN IF ~Truthy(formId) THEN R
     ELSE [formWatchers |-> RemoveWatcher(R.formWatchers, formId, connectionId),
           connectionForms |-> MapDelete(R.connectionForms, connectionId),
           connectionActivity |-> MapDelete(R.connectionActivity, connectionId)]

\* registerPreviewConnection: the insertion into the three indices
InsertWatch(R, connectionId, formId, t) ==
  LET fw1 == IF formId \in DOMAIN R.formWatchers THEN R.formWatchers
             ELSE MapSet(R.formWatchers, formId, {})
  IN [formWatchers |-> MapSet(fw1, formId, fw1[formId] \cup {connectionId}),
      connectionForms |-> MapSet(R.connectionForms, connectionId, formId),
      connectionActivity |-> MapSet(R.connectionActivity, connectionId, t)]

\* A same-form branch that drops the watch instead of refreshing it.
RefreshDropsWatch(R, connectionId, formId, t) ==
  UnregisterPreviewConnection(R, connectionId)

\* A different-form branch that inserts without unregistering first.
ReRegisterKeepOld(R, connectionId, formId, t) ==
  InsertWatch(R, connectionId, formId, t)

\* registerPreviewConnection: the branch taken when the connection is
\* already registered for the same form ("just update activity")
RefreshSameForm(R, connectionId, formId, t) ==
  [R EXCEPT !.connectionActivity = MapSet(@, connectionId, t)]

\* registerPreviewConnection: the branch taken when the connection is
\* registered for a different form
ReRegister(R, connectionId, formId, t) ==
  InsertWatch(UnregisterPreviewConnection(R, connectionId), connectionId, formId, t)

\* registerPreviewConnection(connectionId, formId) at time t
RegisterPreviewConnection(R, connectionId, formId, t) ==
  LET existingFormId == MapGet(R.connectionForms, connectionId)
  IN IF Truthy(existingFormId)
     THEN IF existingFormId # formId
          THEN ReRegister(R, connectionId, formId, t)
          ELSE RefreshSameForm(R, connectionId, formId, t)
     ELSE InsertWatch(R, connectionId, formId, t)

\* An updateActivity that sets the timestamp of any id it is given.
UpdateActivityCreates(R, connectionId, t) ==
  [R EXCEPT !.connectionActivity = MapSet(@, connectionId, t)]

\* updateActivity(connectionId) at time t
UpdateActivityOp(R, connectionId, t) ==
  IF connectionId \in DOMAIN R.connectionActivity
  THEN [R EXCEPT !.connectionActivity = MapSet(@, connectionId, t)]
  ELSE R

\* unregister every connection of a list, in order
RECURSIVE UnregisterAll(_, _)
UnregisterAll(R, ids) ==
  IF ids = <<>> THEN R
  ELSE UnregisterAll(UnregisterPreviewConnection(R, Head(ids)), Tail(ids))

\* -------------------------------------------------------------- Registry
Registry == [connections |-> connections,
             heartbeatInterval |-> heartbeatInterval,
             liveHeartbeats |-> liveHeartbeats,
             res |-> res]

\* hasConnection(connectionId); getConnectionInfo(connectionId) is defined
\* exactly when it is true
HasConnection(G, connectionId) == connectionId \in G.connections

\* A removal that never stops the heartbeat.
RemoveConnectionKeepsHeartbeat(G, connectionId) ==
  IF connectionId \in G.connections
  THEN [G EXCEPT !.connections = @ \ {connectionId},
                 !.res = [@ EXCEPT ![connectionId] = "ended"]]
  ELSE G

\* A removal that deletes the record and leaves the stream as it is.
RemoveConnectionLeavesStream(G, connectionId) ==
  LET G1 == [G EXCEPT !.connections = @ \ {connectionId}]
  IN IF Cardinality(G1.connections) = 0 /\ G1.heartbeatInterval
     THEN [G1 EXCEPT !.heartbeatInterval = FALSE, !.liveHeartbeats = @ - 1]
     ELSE G1

\* removeConnection(connectionId): end the stream and delete the record,
\* then stop the heartbeat when no connection is left
RemoveConnection(G, connectionId) ==
  LET G1 == IF connectionId \in G.connections
            THEN [G EXCEPT !.connections = @ \ {connectionId},
                           !.res = [@ EXCEPT ![connectionId] = "ended"]]
            ELSE G
  IN IF Cardinality(G1.connections) = 0 /\ G1.heartbeatInterval
     THEN [G1 EXCEPT !.heartbeatInterval = FALSE, !.liveHeartbeats = @ - 1]
     ELSE G1

\* addConnection(connectionId, res, ...): store the record, write the
\* initial `connection` event through sendEvent (a write that throws
\* removes the connection again), start the heartbeat if it is not running
AddConnection(G, connectionId, outcome) ==
  LET G1 == [G EXCEPT !.connections = @ \cup {connectionId},
                      !.res = [@ EXCEPT ![connectionId] = "open"]]
      G2 == IF outcome = "throw" THEN RemoveConnection(G1, connectionId) ELSE G1
  IN IF ~G2.heartbeatInterval /\ Cardinality(G2.connections) > 0
     THEN [G2 EXCEPT !.heartbeatInterval = TRUE, !.liveHeartbeats = @ + 1]
     ELSE G2

\* A sendEvent that writes without looking the connection up.
SendEventUnchecked(G, connectionId, event, outcome) ==
  LET w == <<[conn |-> connectionId, event |-> event]>>
  IN IF outcome = "throw"
     THEN [registry |-> RemoveConnection(G, connectionId),
           result |-> FALSE, writes |-> w]
     ELSE [registry |-> G, result |-> (outcome = "ok"), writes |-> w]

\* A sendEvent that keeps a connection whose write threw.
SendEventKeepsFailed(G, connectionId, event, outcome) ==
  IF ~HasConnection(G, connectionId)
  THEN [registry |-> G, result |-> FALSE, writes |-> <<>>]
  ELSE [registry |-> G, result |-> (outcome = "ok"),
        writes |-> <<[conn |-> connectionId, event |-> event]>>]

\* sendEvent(connectionId, event, data), given what a write to the stream
\* does.  The result holds the Registry afterwards, the value returned and
\* the res.write calls made, in order (each the connection and the event).
SendEvent(G, connectionId, event, outcome) ==
  IF ~HasConnection(G, connectionId)
  THEN [registry |-> G, result |-> FALSE, writes |-> <<>>]
  ELSE LET w == <<[conn |-> connectionId, event |-> event]>>
       IN IF outcome = "throw"
          THEN [registry |-> RemoveConnection(G, connectionId),
                result |-> FALSE, writes |-> w]
          ELSE [registry |-> G, result |-> (outcome = "ok"), writes |-> w]

\* sendMessage(connectionId, message)
SendMessage(G, connectionId, outcome) ==
  SendEvent(G, connectionId, "message", outcome)

\* broadcast(event, data): the loop over connections.keys(); a key deleted
\* before the loop reaches it is not visited.  result is the count sent.
RECURSIVE BroadcastLoop(_, _, _, _)
BroadcastLoop(G, ids, event, oc) ==
  IF ids = <<>> THEN [registry |-> G, result |-> 0, writes |-> <<>>]
  ELSE LET one == SendEvent(G, Head(ids), event, oc[Head(ids)])
           rest == BroadcastLoop(one.registry, Tail(ids), event, oc)
       IN [registry |-> rest.registry,
           result |-> (IF one.result THEN 1 ELSE 0) + rest.result,
           writes |-> one.writes \o rest.writes]

Broadcast(G, event, oc) == BroadcastLoop(G, ArrayFrom(G.connections), event, oc)

\* the setInterval callback of startHeartbeat: one write per entry of
\* connections; a write that throws removes that connection
RECURSIVE HeartbeatLoop(_, _, _)
HeartbeatLoop(G, ids, oc) ==
  IF ids = <<>> THEN [registry |-> G, result |-> 0, writes |-> <<>>]
  ELSE LET id == Head(ids)
           visited == HasConnection(G, id)
           G1 == IF visited /\ oc[id] = "throw" THEN RemoveConnection(G, id)
                 ELSE G
           rest == HeartbeatLoop(G1, Tail(ids), oc)
       IN [registry |-> rest.registry,
           result |-> (IF visited /\ oc[id] = "throw" THEN 1 ELSE 0) + rest.result,
           writes |-> (IF visited THEN <<[conn |-> id, event |-> "heartbeat"]>>
                       ELSE <<>>) \o rest.writes]

\* A heartbeat that keeps the connections whose write threw.
HeartbeatKeepsFailed(G, oc) ==
  [HeartbeatLoop(G, ArrayFrom(G.connections), oc) EXCEPT !.registry = G]

Heartbeat(G, oc) == HeartbeatLoop(G, ArrayFrom(G.connections), oc)

\* SSEManager.cleanup(): stop the heartbeat, write the closing event to
\* every stream and end it (a write that throws skips the end), clear the
\* map
CleanupRegistry(G, oc) ==
  LET ids == ArrayFrom(G.connections)
  IN [registry |->
        [connections |-> {},
         heartbeatInterval |-> FALSE,
         liveHeartbeats |-> IF G.heartbeatInterval THEN G.liveHeartbeats - 1
                            ELSE G.liveHeartbeats,
         res |-> [c \in DOMAIN G.res |->
                    IF c \in G.connections /\ oc[c] # "throw" THEN "ended"
                    ELSE G.res[c]]],
      result |-> Len(ids),
      writes |-> [i \in 1..Len(ids) |-> [conn |-> ids[i], event |-> "closing"]]]

\* ------------------------------------------------------------------ Bridge
\* JSON-RPC ids: a number, no id member, or null
Id(n) == [kind |-> "number", value |-> n]
NoId == [kind |-> "undefined", value |-> 0]
NullId == [kind |-> "null", value |-> 0]
RequestIds == {Id(1), Id(0), NoId}

\* `id || null`
OrNull(id) == IF id.kind = "number" /\ id.value # 0 THEN id ELSE NullId

\* the method member of a message: two of the registered methods, one that
\* is not registered, and None for a message without one
Methods == {"tools/list", "tools/call", "unknown_method", None}
Messages == [method : Methods, id : RequestIds]
\* the messages posted to /messages: with an id or without one
StreamMessages == {message \in Messages : message.id \in {Id(1), NoId}}

\* JSON-RPC error codes
MethodNotFound == -32601
InternalError == -32603

\* responses: code is 0 for a result
ResultResponse(id, result) ==
  [jsonrpc |-> "2.0", id |-> id, code |-> 0, message |-> "", result |-> result]
ErrorResponse(id, code, message) ==
  [jsonrpc |-> "2.0", id |-> id, code |-> code, message |-> message,
   result |-> None]
NoResponse == [jsonrpc |-> None, id |-> NoId, code |-> 0, message |-> "",
               result |-> None]

\* thrown values
Error(message) == [isError |-> TRUE, message |-> message]
NoError == [isError |-> FALSE, message |-> ""]

\* messageHandlers after startup: the four registerHandler calls
MessageHandlers ==
  [method \in {"initialize", "notifications/initialized", "tools/list",
               "tools/call"} |-> method]

\* what a tools/call does: the request carries no arguments, or the tool
\* request is awaited and resolves or rejects
ToolRuns == {"noArguments", "resolves", "rejects"}
\* only a tools/call request executes a tool
RunsOf(message) ==
  IF message.method = "tools/call" THEN ToolRuns ELSE {"resolves"}

\* The handlers registered at startup, given the request and what the tool
\* execution does.  late tells that the handler awaited the tool request
\* before it settled.
Handler(name, request, run) ==
  IF name = "tools/call"
  THEN CASE run = "noArguments" ->
              [threw |-> TRUE, error |-> Error("Missing arguments"),
               response |-> NoResponse, late |-> FALSE]
         [] run = "rejects" ->      \* an Error with the message of the failure
              [threw |-> TRUE, error |-> Error("tool request failed"),
               response |-> NoResponse, late |-> TRUE]
         [] OTHER ->
              [threw |-> FALSE, error |-> NoError,
               response |-> ResultResponse(request.id, "tools/call result"),
               late |-> TRUE]
  ELSE [threw |-> FALSE, error |-> NoError,
        response |-> ResultResponse(request.id, name \o " result"),
        late |-> FALSE]

\* the catch block of handleRequestSync
Caught(message, err, invoked, late) ==
  [threw |-> FALSE,
   response |-> ErrorResponse(OrNull(message.id), InternalError,
                              IF err.isError THEN err.message
                              ELSE "Internal error"),
   invoked |-> invoked, late |-> late]

\* A handleRequestSync without the catch block.
HandleRequestSyncUncaught(handlers, message, run) ==
  IF message.method = None
  THEN [threw |-> TRUE, response |-> NoResponse, invoked |-> <<>>,
        late |-> FALSE]
  ELSE IF message.method \notin DOMAIN handlers
  THEN [threw |-> FALSE,
        response |-> ErrorResponse(message.id, MethodNotFound,
                                   "Method not found: " \o message.method),
        invoked |-> <<>>, late |-> FALSE]
  ELSE LET h == Handler(handlers[message.method], message, run)
       IN [threw |-> h.threw, response |-> h.response,
           invoked |-> <<message.method>>, late |-> h.late]

\* A handleRequestSync that runs the first registered handler when the
\* method has none.
HandleRequestSyncFallback(handlers, message, run) ==
  IF message.method = None
  THEN Caught(message, Error("Invalid JSON-RPC message: missing method"),
              <<>>, FALSE)
  ELSE LET name == IF message.method \in DOMAIN handlers
                   THEN handlers[message.method] ELSE "initialize"
           h == Handler(name, message, run)
       IN IF h.threw THEN Caught(message, h.error, <<name>>, h.late)
          ELSE [threw |-> FALSE, response |-> h.response,
                invoked |-> <<name>>, late |-> h.late]

\* A handleRequestSync that hands a message without a method to the
\* initialize handler.
HandleRequestSyncDispatchesAll(handlers, message, run) ==
  LET name == IF message.method \in DOMAIN handlers
              THEN handlers[message.method] ELSE "initialize"
      h == Handler(name, message, run)
  IN IF message.method # None /\ message.method \notin DOMAIN handlers
     THEN [threw |-> FALSE,
           response |-> ErrorResponse(message.id, MethodNotFound,
                                      "Method not found: " \o message.method),
           invoked |-> <<>>, late |-> FALSE]
     ELSE IF h.threw THEN Caught(message, h.error, <<name>>, h.late)
     ELSE [threw |-> FALSE, response |-> h.response,
           invoked |-> <<name>>, late |-> h.late]

\* handleRequestSync(message).  The result holds whether the returned
\* promise rejects, the response it resolves to, the handlers invoked (by
\* method, in order) and whether a handler awaited the tool request.
HandleRequestSync(handlers, message, run) ==
  IF message.method = None
  THEN Caught(message, Error("Invalid JSON-RPC message: missing method"),
              <<>>, FALSE)
  ELSE IF message.method \notin DOMAIN handlers
  THEN [threw |-> FALSE,
        response |-> ErrorResponse(message.id, MethodNotFound,
                                   "Method not found: " \o message.method),
        invoked |-> <<>>, late |-> FALSE]
  ELSE LET h == Handler(handlers[message.method], message, run)
       IN IF h.threw
          THEN Caught(message, h.error, <<message.method>>, h.late)
          ELSE [threw |-> FALSE, response |-> h.response,
                invoked |-> <<message.method>>, late |-> h.late]

\* sendResponse(connectionId, response): frames are the res.write calls
\* with the data they carry
SendResponse(G, connectionId, response, outcome) ==
  LET r == SendMessage(G, connectionId, outcome)
  IN [registry |-> r.registry, result |-> r.result,
      frames |-> [i \in 1..Len(r.writes) |->
                    [conn |-> r.writes[i].conn, event |-> r.writes[i].event,
                     data |-> response]]]

\* what handleRequest has done when it returns or waits
Dropped(G) ==
  [registry |-> G, op |-> "dropped", invoked |-> <<>>, threw |-> FALSE,
   response |-> NoResponse, ok |-> FALSE, frames |-> <<>>]
Waiting(G, r) ==
  [registry |-> G, op |-> "waiting", invoked |-> r.invoked, threw |-> FALSE,
   response |-> NoResponse, ok |-> FALSE, frames |-> <<>>]
Responded(G, op, connectionId, r, invoked, outcome) ==
  LET sent == SendResponse(G, connectionId, r.response, outcome)
  IN [registry |-> sent.registry, op |-> op, invoked |-> invoked,
      threw |-> r.threw, response |-> r.response, ok |-> sent.result,
      frames |-> sent.frames]

\* A handleRequest without the hasConnection check.
HandleRequestUnchecked(G, handlers, connectionId, message, run, outcome) ==
  LET r == HandleRequestSync(handlers, message, run)
  IN IF r.late THEN Waiting(G, r)
     ELSE Responded(G, "handleRequest", connectionId, r, r.invoked, outcome)

\* handleRequest(connectionId, message) up to the point where it has sent
\* the response or where the handler waits for the tool request
HandleRequestOp(G, handlers, connectionId, message, run, outcome) ==
  IF ~HasConnection(G, connectionId) THEN Dropped(G)
  ELSE LET r == HandleRequestSync(handlers, message, run)
       IN IF r.late THEN Waiting(G, r)
          ELSE Responded(G, "handleRequest", connectionId, r, r.invoked, outcome)

\* A handleRequest that registers the connection again when it is gone by
\* the time the handler has settled.
HandleRequestRestReconnects(G, handlers, call, outcome) ==
  Responded(IF HasConnection(G, call.conn) THEN G
            ELSE AddConnection(G, call.conn, "ok"),
            "handleRequestRest", call.conn,
            HandleRequestSync(handlers, call.message, call.run), <<>>, outcome)

\* the rest of a waiting handleRequest: handleRequestSync returns and the
\* response is sent
HandleRequestRest(G, handlers, call, outcome) ==
  Responded(G, "handleRequestRest", call.conn,
            HandleRequestSync(handlers, call.message, call.run), <<>>, outcome)

\* ---------------------------------------------------------------- dispatch
\* the event name sendNotification chooses for a change type
EventFor(changeType) ==
  IF changeType = "deleted" THEN "form-deleted" ELSE "form-update"

\* sendFormUpdateEvent / sendFormDeletedEvent for one connection: what
\* happens to the frame, given what a write to the stream does
\*  "notfound": the Registry has no such connection, nothing is written
\*  "sent":     res.write returned true
\*  "full":     res.write returned false (the frame is buffered)
\*  "threw":    res.write threw, the exception is caught
SendFormEvent(G, connectionId, outcome) ==
  IF ~HasConnection(G, connectionId) THEN "notfound"
  ELSE IF outcome = "ok" THEN "sent"
  ELSE IF outcome = "full" THEN "full"
  ELSE "threw"

\* A classification that takes every failed send for dead.
IsDeadOnAnyFailure(G, connectionId, result) == result # "sent"

\* sendNotification: the classification of a failed send as dead
IsDead(G, connectionId, result) ==
  result # "sent" /\ ~HasConnection(G, connectionId)

\* sendNotification: one iteration of the loop over the watchers
Attempt(G, connectionId, changeType, outcome) ==
  LET result == SendFormEvent(G, connectionId, outcome)
  IN [conn |-> connectionId, event |-> EventFor(changeType),
      result |-> result, dead |-> IsDead(G, connectionId, result)]

\* sendNotification: the loop over the snapshot of the form's watchers
Attempts(G, connectionIds, changeType, oc) ==
  [i \in 1..Len(connectionIds) |->
     Attempt(G, connectionIds[i], changeType, oc[connectionIds[i]])]

\* sendNotification: the ids queued in deadConnections, in loop order
DeadConnections(attempts) ==
  LET dead == SelectSeq(attempts, LAMBDA a : a.dead)
  IN [i \in 1..Len(dead) |-> dead[i].conn]

\* A sendNotification that takes a delivered frame for activity of its
\* connection.
SendNotificationTouches(R, G, formId, changeType, formData, oc) ==
  LET connectionIds == GetConnectionsByForm(R, formId)
      attempts == Attempts(G, connectionIds, changeType, oc)
      R1 == UnregisterAll(R, DeadConnections(attempts))
  IN [router |-> [R1 EXCEPT !.connectionActivity =
                    [c \in DOMAIN @ |->
                       IF \E i \in DOMAIN attempts :
                            attempts[i].conn = c /\ attempts[i].result = "sent"
                       THEN 0 ELSE @[c]]],
      run |-> [formId |-> formId, changeType |-> changeType,
               formData |-> formData, attempts |-> attempts]]

\* sendNotification(formId, changeType, formData) on Router R and Registry
\* G, where oc[c] is what a write to c's stream does (the code does not
\* use formData).  The result holds the Router afterwards and the record
\* of the run: the arguments of the call and the send attempts in order.
SendNotification(R, G, formId, changeType, formData, oc) ==
  LET connectionIds == GetConnectionsByForm(R, formId)
      attempts == Attempts(G, connectionIds, changeType, oc)
  IN [router |-> UnregisterAll(R, DeadConnections(attempts)),
      run |-> [formId |-> formId, changeType |-> changeType,
               formData |-> formData, attempts |-> attempts]]

\* How the statements of the notification path complete: "normal", or
\* "throw" when an exception leaves them.

\* A try block whose exception is thrown on.
TryRethrows(completion) == completion

\* try { body } catch (error) { console.error(...) }
TryCatch(completion) == "normal"

\* statements in sequence: the first exception leaves the sequence
Sequence(completions) ==
  IF \E i \in 1..Len(completions) : completions[i] = "throw" THEN "throw"
  ELSE "normal"

\* conn.res.write(formattedData)
WriteCompletion(outcome) == IF outcome = "throw" THEN "throw" ELSE "normal"

\* sendFormUpdateEvent / sendFormDeletedEvent: the lookup, then the write
\* inside try/catch
SendFormEventCompletion(G, connectionId, outcome) ==
  IF ~HasConnection(G, connectionId) THEN "normal"
  ELSE TryCatch(WriteCompletion(outcome))

\* sendNotification: the loop with its try/catch around each send, then the
\* loop over deadConnections with its try/catch around each unregistration
SendNotificationCompletion(R, G, formId, oc) ==
  LET connectionIds == GetConnectionsByForm(R, formId)
  IN Sequence([i \in 1..Len(connectionIds) |->
                 TryCatch(SendFormEventCompletion(G, connectionIds[i],
                                                  oc[connectionIds[i]]))]
              \o <<TryCatch("normal")>>)

\* notifyFormUpdated: debounceNotification only clears and sets a timer
NotifyFormUpdatedCompletion(R, G, formId, oc) == "normal"

\* notifyFormCreated: sendNotification
NotifyFormCreatedCompletion(R, G, formId, oc) ==
  SendNotificationCompletion(R, G, formId, oc)

\* notifyFormDeleted: sendNotification, the pending timer is cleared, the
\* clean-up loop has a try/catch around each unregistration
NotifyFormDeletedCompletion(R, G, formId, oc) ==
  Sequence(<<SendNotificationCompletion(R, G, formId, oc), "normal",
             TryCatch("normal")>>)

\* the timer callback: sendNotification, then pendingNotifications.delete
TimerCallbackCompletion(R, G, formId, oc) ==
  Sequence(<<SendNotificationCompletion(R, G, formId, oc), "normal">>)

\* ----------------------------------------------------------------- timers
Timers == [timers |-> timers, pendingNotifications |-> pendingNotifications]

\* clearTimeout(pending) guarded by `if (pending)`
ClearTimeoutOf(T, formId) ==
  IF formId \in DOMAIN T.pendingNotifications
  THEN [T EXCEPT !.timers = @ \ {T.pendingNotifications[formId]}]
  ELSE T

\* A debounce that schedules without clearing the pending timer.
DebounceKeepOld(T, formId, changeType, formData, t) ==
  LET timeout == [formId |-> formId, changeType |-> changeType,
                  formData |-> formData, due |-> t + DebounceInterval]
  IN [timers |-> T.timers \cup {timeout},
      pendingNotifications |-> MapSet(T.pendingNotifications, formId, timeout)]

\* debounceNotification(formId, changeType, formData) at time t
DebounceNotification(T, formId, changeType, formData, t) ==
  LET T1 == ClearTimeoutOf(T, formId)
      timeout == [formId |-> formId, changeType |-> changeType,
                  formData |-> formData, due |-> t + DebounceInterval]
  IN [timers |-> T1.timers \cup {timeout},
      pendingNotifications |-> MapSet(T1.pendingNotifications, formId, timeout)]

\* A deletion that leaves the pending timer alone.
ClearPendingNothing(T, formId) == T

\* A deletion that cancels the pending timer of every form.
ClearPendingEveryForm(T, formId) ==
  [timers |-> T.timers \ {T.pendingNotifications[f] :
                            f \in DOMAIN T.pendingNotifications},
   pendingNotifications |-> EmptyMap]

\* notifyFormDeleted: "Clean up any pending notifications for this form"
ClearPending(T, formId) ==
  IF formId \in DOMAIN T.pendingNotifications
  THEN [timers |-> T.timers \ {T.pendingNotifications[formId]},
        pendingNotifications |-> MapDelete(T.pendingNotifications, formId)]
  ELSE T

\* A deletion that unregisters no watcher.
CleanupDeletedFormNothing(R, G, ids) == R

\* notifyFormDeleted: "Clean up all connections watching this deleted
\* form": unregister each one the Registry still has
RECURSIVE CleanupDeletedForm(_, _, _)
CleanupDeletedForm(R, G, ids) ==
  IF ids = <<>> THEN R
  ELSE CleanupDeletedForm(
         IF HasConnection(G, Head(ids))
         THEN UnregisterPreviewConnection(R, Head(ids)) ELSE R,
         G, Tail(ids))

\* The notify methods and the timer callback as functions of the Router R,
\* the Registry G and the timers T at time t.  Each result holds the three
\* afterwards and the sendNotification runs made, in order.

\* notifyFormUpdated(formId, formData)
NotifyFormUpdatedOp(R, G, T, formId, formData, oc, t) ==
  [router |-> R, registry |-> G,
   timers |-> DebounceNotification(T, formId, "updated", formData, t),
   runs |-> <<>>]

\* A creation that also cancels the pending timer of the form.
NotifyFormCreatedClearing(R, G, T, formId, formData, oc, t) ==
  LET sn == SendNotification(R, G, formId, "created", formData, oc)
  IN [router |-> sn.router, registry |-> G, timers |-> ClearPending(T, formId),
      runs |-> <<sn.run>>]

\* A creation that goes through the debounce timer.
NotifyFormCreatedDebounced(R, G, T, formId, formData, oc, t) ==
  [router |-> R, registry |-> G,
   timers |-> DebounceNotification(T, formId, "created", formData, t),
   runs |-> <<>>]

\* notifyFormCreated(formId, formData)
NotifyFormCreatedOp(R, G, T, formId, formData, oc, t) ==
  LET sn == SendNotification(R, G, formId, "created", formData, oc)
  IN [router |-> sn.router, registry |-> G, timers |-> T,
      runs |-> <<sn.run>>]

\* notifyFormDeleted(formId)
NotifyFormDeletedOp(R, G, T, formId, formData, oc, t) ==
  LET sn == SendNotification(R, G, formId, "deleted", None, oc)
      connectionIds == GetConnectionsByForm(sn.router, formId)
  IN [router |-> CleanupDeletedForm(sn.router, G, connectionIds),
      registry |-> G,
      timers |-> ClearPending(T, formId),
      runs |-> <<sn.run>>]

\* A timer callback that sends to the connections that watched the form
\* when the timer was set.
TimerCallbackCapturedWatchers(R, G, T, tm, oc) ==
  LET captured == IF atCall[tm.formId] = {} THEN MapDelete(R.formWatchers, tm.formId)
                  ELSE MapSet(R.formWatchers, tm.formId, atCall[tm.formId])
      sn == SendNotification([R EXCEPT !.formWatchers = captured], G,
                             tm.formId, tm.changeType, tm.formData, oc)
  IN [router |-> UnregisterAll(R, DeadConnections(sn.run.attempts)),
      registry |-> G,
      timers |-> [timers |-> T.timers \ {tm},
                  pendingNotifications |->
                    MapDelete(T.pendingNotifications, tm.formId)],
      runs |-> <<sn.run>>]

\* A timer callback that leaves the pending slot of its form filled.
TimerCallbackKeepsPending(R, G, T, tm, oc) ==
  LET sn == SendNotification(R, G, tm.formId, tm.changeType, tm.formData, oc)
  IN [router |-> sn.router, registry |-> G,
      timers |-> [timers |-> T.timers \ {tm},
                  pendingNotifications |-> T.pendingNotifications],
      runs |-> <<sn.run>>]

\* the callback debounceNotification hands to setTimeout, for timer tm
TimerCallback(R, G, T, tm, oc) ==
  LET sn == SendNotification(R, G, tm.formId, tm.changeType, tm.formData, oc)
  IN [router |-> sn.router, registry |-> G,
      timers |-> [timers |-> T.timers \ {tm},
                  pendingNotifications |->
                    MapDelete(T.pendingNotifications, tm.formId)],
      runs |-> <<sn.run>>]

\* An idle test that also takes a connection idle for exactly the threshold.
IdleConnectionsEager(R, t) ==
  ArrayFrom({c \in DOMAIN R.connectionActivity :
               t - R.connectionActivity[c] >= IdleTimeout})

\* cleanupIdleConnections: the connections whose idle time exceeds the
\* threshold at time t
IdleConnections(R, t) ==
  ArrayFrom({c \in DOMAIN R.connectionActivity :
               t - R.connectionActivity[c] > IdleTimeout})

\* A sweep that ends no stream.
EndStreamsNothing(G, ids) == G

\* cleanupIdleConnections: conn.res.end() for each idle connection the
\* Registry has
RECURSIVE EndStreams(_, _)
EndStreams(G, ids) ==
  IF ids = <<>> THEN G
  ELSE EndStreams(
         IF HasConnection(G, Head(ids))
         THEN [G EXCEPT !.res = [@ EXCEPT ![Head(ids)] = "ended"]] ELSE G,
         Tail(ids))

\* ------------------------------------------------------------------ state
SetRouter(R) ==
  /\ formWatchers' = R.formWatchers
  /\ connectionForms' = R.connectionForms
  /\ connectionActivity' = R.connectionActivity

SetRegistry(G) ==
  /\ connections' = G.connections
  /\ heartbeatInterval' = G.heartbeatInterval
  /\ liveHeartbeats' = G.liveHeartbeats
  /\ res' = G.res

SetTimers(T) ==
  /\ timers' = T.timers
  /\ pendingNotifications' = T.pendingNotifications

SetAll(r) == SetRouter(r.router) /\ SetRegistry(r.registry) /\ SetTimers(r.timers)

\* ---------------------------------------------------------------- actions
\* The actions constrain the program's variables; what the observation
\* variables (lastNotify, lastRegister, burst) record is stated by each
\* specification below.

\* the wall clock advances
Tick ==
  /\ now < MaxTime
  /\ now' = now + 1
  /\ UNCHANGED <<connections, heartbeatInterval, liveHeartbeats, res, formWatchers,
                 connectionForms, connectionActivity, pendingNotifications,
                 timers, idleCheckInterval, inflight>>

\* A route that adds the stream to the Registry before it looks at the limit.
OpenPreviewStreamAddsFirst(c, f, outcome) ==
  /\ res[c] = "none" /\ c \notin connections /\ c \notin DOMAIN connectionForms
  /\ SetRegistry(AddConnection(Registry, c, outcome))
  /\ IF Cardinality(DOMAIN connectionForms) >= MaxPreviewConnections
     THEN UNCHANGED <<formWatchers, connectionForms, connectionActivity>>
     ELSE SetRouter(RegisterPreviewConnection(Router, c, f, now))
  /\ UNCHANGED <<now, pendingNotifications, timers, idleCheckInterval, inflight>>

\* GET /preview-updates/:formId with a fresh connection id
OpenPreviewStream(c, f, outcome) ==
  /\ res[c] = "none" /\ c \notin connections /\ c \notin DOMAIN connectionForms
  /\ IF Cardinality(DOMAIN connectionForms) >= MaxPreviewConnections
     THEN UNCHANGED <<connections, heartbeatInterval, liveHeartbeats, res, formWatchers,
                     connectionForms, connectionActivity>>
     ELSE /\ SetRegistry(AddConnection(Registry, c, outcome))
          /\ SetRouter(RegisterPreviewConnection(Router, c, f, now))
  /\ UNCHANGED <<now, pendingNotifications, timers, idleCheckInterval, inflight>>

\* the stream's 'close' (or 'error') event: the Registry's callback removes
\* the connection, the route's callback unregisters it
StreamClosed(c) ==
  /\ res[c] \in {"open", "ended"}
  /\ LET G == RemoveConnection(Registry, c)
     IN SetRegistry([G EXCEPT !.res = [@ EXCEPT ![c] = "none"]])
  /\ SetRouter(UnregisterPreviewConnection(Router, c))
  /\ UNCHANGED <<now, pendingNotifications, timers, idleCheckInterval, inflight>>

\* a call of registerPreviewConnection(c, f)
Register(c, f) ==
  /\ SetRouter(RegisterPreviewConnection(Router, c, f, now))
  /\ UNCHANGED <<now, connections, heartbeatInterval, liveHeartbeats, res,
                 pendingNotifications, timers, idleCheckInterval, inflight>>

\* a call of unregisterPreviewConnection(c)
Unregister(c) ==
  /\ SetRouter(UnregisterPreviewConnection(Router, c))
  /\ UNCHANGED <<now, connections, heartbeatInterval, liveHeartbeats, res,
                 pendingNotifications, timers, idleCheckInterval, inflight>>

\* a call of updateActivity(c)
UpdateActivity(c) ==
  /\ SetRouter(UpdateActivityOp(Router, c, now))
  /\ UNCHANGED <<now, connections, heartbeatInterval, liveHeartbeats, res,
                 pendingNotifications, timers, idleCheckInterval, inflight>>

\* a call of notifyFormUpdated(f, p)
NotifyFormUpdated(f, p, oc) ==
  /\ SetAll(NotifyFormUpdatedOp(Router, Registry, Timers, f, p, oc, now))
  /\ UNCHANGED <<now, idleCheckInterval, inflight>>

\* a call of notifyFormCreated(f, p)
NotifyFormCreated(f, p, oc) ==
  /\ SetAll(NotifyFormCreatedOp(Router, Registry, Timers, f, p, oc, now))
  /\ UNCHANGED <<now, idleCheckInterval, inflight>>

\* a call of notifyFormDeleted(f)
NotifyFormDeleted(f, oc) ==
  /\ SetAll(NotifyFormDeletedOp(Router, Registry, Timers, f, None, oc, now))
  /\ UNCHANGED <<now, idleCheckInterval, inflight>>

\* the callback of a debounce timer runs, at or after its due time
TimerFires(tm, oc) ==
  /\ tm \in timers
  /\ now >= tm.due
  /\ SetAll(TimerCallback(Router, Registry, Timers, tm, oc))
  /\ UNCHANGED <<now, idleCheckInterval, inflight>>

\* a tick of the idle-sweep interval: cleanupIdleConnections()
IdleSweep ==
  /\ idleCheckInterval
  /\ LET idle == IdleConnections(Router, now)
     IN /\ SetRegistry(EndStreams(Registry, idle))
        /\ SetRouter(UnregisterAll(Router, idle))
  /\ UNCHANGED <<now, pendingNotifications, timers, idleCheckInterval, inflight>>

\* what the writes of one dispatch for form f can do: one outcome for each
\* stream the dispatch writes to (the watchers of f the Registry has)
WriteChoices(f) ==
  LET written == {c \in Conns : c \in connections
                                /\ f \in DOMAIN formWatchers
                                /\ c \in formWatchers[f]}
  IN {oc \in [Conns -> WriteOutcomes] :
        \A c \in Conns \ written : oc[c] = "ok"}

NoWrites == [c \in Conns |-> "ok"]

\* ------------------------------------------------- actions of the Registry
RouterUntouched ==
  UNCHANGED <<now, formWatchers, connectionForms, connectionActivity,
              pendingNotifications, timers, idleCheckInterval, inflight>>

\* what the writes of one Registry operation can do: one outcome for each
\* stream of the Registry
RegistryWriteChoices ==
  {oc \in [Conns -> WriteOutcomes] :
     \A c \in Conns \ connections : oc[c] = "ok"}

\* GET /sse with a fresh connection id
OpenSseStream(c, outcome) ==
  /\ res[c] = "none" /\ c \notin connections /\ c \notin DOMAIN connectionForms
  /\ SetRegistry(AddConnection(Registry, c, outcome))
  /\ RouterUntouched

\* a call of sendMessage(c, message)
CallSendMessage(c, outcome) ==
  /\ SetRegistry(SendMessage(Registry, c, outcome).registry)
  /\ RouterUntouched

\* a call of broadcast(event, data)
CallBroadcast(oc) ==
  /\ SetRegistry(Broadcast(Registry, "message", oc).registry)
  /\ RouterUntouched

\* a tick of the heartbeat interval
HeartbeatTick(oc) ==
  /\ liveHeartbeats > 0
  /\ SetRegistry(Heartbeat(Registry, oc).registry)
  /\ RouterUntouched

\* a call of removeConnection(c)
CallRemoveConnection(c) ==
  /\ SetRegistry(RemoveConnection(Registry, c))
  /\ RouterUntouched

\* a call of SSEManager.cleanup()
CallCleanup(oc) ==
  /\ SetRegistry(CleanupRegistry(Registry, oc).registry)
  /\ RouterUntouched

\* --------------------------------------------------- actions of the Bridge
NotifierUntouched ==
  UNCHANGED <<now, formWatchers, connectionForms, connectionActivity,
              pendingNotifications, timers, idleCheckInterval>>

\* POST on the direct endpoint with a message that has an id:
\* handleRequestSync(message), the response goes into the HTTP reply
DirectRequest(message, run) ==
  /\ message.id # NoId
  /\ UNCHANGED <<connections, heartbeatInterval, liveHeartbeats, res, inflight>>
  /\ NotifierUntouched

\* a call of handleRequest(c, message)
HandleRequest(c, message, run, outcome) ==
  LET h == HandleRequestOp(Registry, MessageHandlers, c, message, run, outcome)
  IN /\ IF h.op = "waiting"
        THEN /\ Len(inflight) < MaxInflight
             /\ inflight' = Append(inflight,
                                   [conn |-> c, message |-> message, run |-> run])
        ELSE UNCHANGED inflight
     /\ SetRegistry(h.registry)
     /\ NotifierUntouched

\* what the write of the response can do; there is none when the call is
\* dropped or waits
ResponseWriteChoices(c, message, run) ==
  IF HandleRequestOp(Registry, MessageHandlers, c, message, run, "ok").op
       = "handleRequest"
  THEN WriteOutcomes ELSE {"ok"}

\* the tool request of the i-th waiting handleRequest settles
HandleRequestResumes(i, outcome) ==
  /\ i \in 1..Len(inflight)
  /\ inflight' = [k \in 1..(Len(inflight) - 1) |->
                    IF k < i THEN inflight[k] ELSE inflight[k + 1]]
  /\ SetRegistry(HandleRequestRest(Registry, MessageHandlers, inflight[i],
                                   outcome).registry)
  /\ NotifierUntouched

\* ----------------------------------------------------------- observations
NoRegister == [conn |-> None, form |-> None, prev |-> None]
NoBurst == [calls |-> 0, at |-> 0, formData |-> None]
NoSnapshot ==
  [connections |-> {}, heartbeatInterval |-> FALSE, liveHeartbeats |-> 0,
   formWatchers |-> EmptyMap, connectionForms |-> EmptyMap,
   connectionActivity |-> EmptyMap]
\* op: the operation; conn: its connection; ok: the boolean it returned;
\* count: the number it returned; idle: the connections an idle sweep found
\* overdue; writes: its res.write calls in order; before: the state an
\* opened stream found
NoCall == [op |-> None, conn |-> None, ok |-> FALSE, count |-> 0, idle |-> {},
           writes |-> <<>>, before |-> NoSnapshot, pair |-> None,
           outcomes |-> [c \in Conns |-> "ok"],
           request |-> [method |-> None, id |-> NoId], run |-> None,
           response |-> NoResponse, invoked |-> <<>>, threw |-> FALSE,
           frames |-> <<>>]
NoNotify == [op |-> None, formId |-> None, runs |-> <<>>, watchers |-> {},
             calls |-> 0, at |-> 0, lastData |-> None,
             cleared |-> FALSE, scheduled |-> FALSE, completion |-> "normal"]

\* What a step that runs operation op for form f with result r is seen to
\* do: the sendNotification runs it makes, the connections that watched f
\* when it started, the burst b of notifyFormUpdated calls it answers,
\* whether a timer of f that was live (other than the one that fired) is no
\* longer live, and whether a timer that was not live is live now.
Seen(op, f, r, b, fired) ==
  [op |-> op, formId |-> f, runs |-> r.runs,
   watchers |-> IF f \in DOMAIN formWatchers THEN formWatchers[f] ELSE {},
   calls |-> b.calls, at |-> b.at, lastData |-> b.formData,
   cleared |-> \E tm \in timers \ fired :
                 tm.formId = f /\ tm \notin r.timers.timers,
   scheduled |-> r.timers.timers \ timers # {}, completion |-> "normal"]

\* ----------------------------------------------------------- Tool handlers
\* A string is the sequence of its characters; an optional field of a form
\* is defined or not.
Undefined == [defined |-> FALSE, chars |-> <<>>]
Str(chars) == [defined |-> TRUE, chars |-> chars]

MCP_PATH_PREFIX == <<"m", "c", "p", "-">>
MCP_TITLE_PREFIX == <<"[", "M", "C", "P", "]", " ">>

\* String.prototype.startsWith
StartsWith(s, prefix) ==
  Len(s) >= Len(prefix) /\ SubSeq(s, 1, Len(prefix)) = prefix

\* s?.startsWith(prefix): undefined, which is falsy, when s is undefined
OptStartsWith(s, prefix) == s.defined /\ StartsWith(s.chars, prefix)

IsMCPForm(form) ==
  OptStartsWith(form.path, MCP_PATH_PREFIX)
    \/ OptStartsWith(form.title, MCP_TITLE_PREFIX)

\* a validation that lets every form through
ValidateMCPOwnershipPasses(form) == FALSE

\* validateMCPOwnership: TRUE when it throws
ValidateMCPOwnership(form) == ~IsMCPForm(form)

\* The titles and paths a form of the Form.io server can have: the prefix at
\* the start, the prefix without its last character, the prefix further in,
\* and no value.
Titles == {Str(MCP_TITLE_PREFIX \o <<"A">>), Str(<<"[", "M", "C", "P", "]", "A">>),
           Str(<<"A">> \o MCP_TITLE_PREFIX), Undefined}
Paths == {Str(MCP_PATH_PREFIX \o <<"a">>), Str(<<"m", "c", "p", "a">>),
          Str(<<"a">> \o MCP_PATH_PREFIX), Undefined}

NoForm == [exists |-> FALSE, title |-> Undefined, path |-> Undefined]
Form(title, path) == [exists |-> TRUE, title |-> title, path |-> path]
UpstreamForms == {Form(t, p) : t \in Titles, p \in Paths}

\* args.updates: the fields it carries replace those of the form
Updates == {[title |-> Undefined, path |-> Undefined],
            [title |-> Str(<<"A">>), path |-> Str(<<"a">>)]}
Put(form, updates) ==
  Form(IF updates.title.defined THEN updates.title ELSE form.title,
       IF updates.path.defined THEN updates.path ELSE form.path)

\* request.params.arguments of a tools/call request
NoArgs == [present |-> FALSE, formId |-> "f1", updates |-> CHOOSE u \in Updates : TRUE]
Args(formId, updates) == [present |-> TRUE, formId |-> formId, updates |-> updates]

Request(method, formId) == [method |-> method, formId |-> formId]

\* The handler of a tool call up to the request that changes the form: the
\* arguments are checked, the form is fetched and validated, and the request
\* is sent. phase is "done" when the handler has returned or thrown and
\* "sent" while the changing request is on its way.
NoTool == [phase |-> "idle", name |-> "update_form", args |-> NoArgs,
           fetched |-> NoForm, requests |-> <<>>, threw |-> FALSE]
Threw(name, args, fetched, requests) ==
  [phase |-> "done", name |-> name, args |-> args, fetched |-> fetched,
   requests |-> requests, threw |-> TRUE]
ChangingTool(U, name, args, method) ==
  IF ~args.present THEN Threw(name, args, NoForm, <<>>)
  ELSE LET existingForm == U[args.formId]
           getForm == Request("getForm", args.formId)
       IN IF ~existingForm.exists
          THEN Threw(name, args, NoForm, <<getForm>>)
          ELSE IF ValidateMCPOwnership(existingForm)
          THEN Threw(name, args, existingForm, <<getForm>>)
          ELSE [phase |-> "sent", name |-> name, args |-> args,
                fetched |-> existingForm,
                requests |-> <<getForm, Request(method, args.formId)>>,
                threw |-> FALSE]
update_form(U, args) == ChangingTool(U, "update_form", args, "updateForm")
delete_form(U, args) == ChangingTool(U, "delete_form", args, "deleteForm")

\* The Form.io server answers the changing request: PUT replaces the fields,
\* DELETE removes the form; either fails when the form is gone.
UpstreamAnswers(U, t) ==
  IF ~U[t.args.formId].exists
  THEN [upstream |-> U, tool |-> [t EXCEPT !.phase = "done", !.threw = TRUE]]
  ELSE [upstream |-> [U EXCEPT ![t.args.formId] =
                        IF t.name = "update_form" THEN Put(@, t.args.updates)
                        ELSE NoForm],
        tool |-> [t EXCEPT !.phase = "done"]]

\* --------------------------------------------------- Change notifications
\* After a tool changed a form, the process that ran it tells the Router:
\* the HTTP server process holds the FormUpdateNotifier and calls it, a
\* stdio process has none and POSTs to the internal endpoint of the HTTP
\* server.
Processes == {"http", "stdio"}
ChangeTypes == {"created", "updated", "deleted"}
\* fetch(url, ...): the server answers, nothing listens on the port, or the
\* host cannot be reached
FetchOutcomes == {"ok", "refused", "unreachable"}
FetchCompletion(outcome) == IF outcome = "ok" THEN "normal" ELSE "throws"

\* an error of the POST that reaches the caller of the tool
RelayRethrows(completion) == completion

\* the error of the POST is caught and ignored
RelayCatch(completion) == "normal"

NoRelay == [phase |-> "idle", process |-> "http", formId |-> "f1",
            changeType |-> "created", post |-> "none", notified |-> FALSE,
            result |-> "pending"]

\* the tool's change of the form has been made on the Form.io server
Committed(process, formId, changeType) ==
  [NoRelay EXCEPT !.phase = "committed", !.process = process,
                  !.formId = formId, !.changeType = changeType]

\* the form after the change
Changed(form, changeType) ==
  CASE changeType = "created" ->
         Form(Str(MCP_TITLE_PREFIX \o <<"A">>), Str(MCP_PATH_PREFIX \o <<"a">>))
    [] changeType = "updated" -> Put(form, [title |-> Str(<<"A">>), path |-> Undefined])
    [] changeType = "deleted" -> NoForm

\* if (!sharedFormUpdateNotifier) await notifyHttpServer(formId, changeType)
\* and the result of the tool call
NotifyHttpServer(r, outcome) ==
  IF r.process = "http"
  THEN [r EXCEPT !.phase = "done", !.notified = TRUE, !.result = "success"]
  ELSE [r EXCEPT !.phase = "done", !.post = outcome,
                 !.notified = (outcome = "ok"),
                 !.result = IF RelayCatch(FetchCompletion(outcome)) = "normal"
                            THEN "success" ELSE "error"]

\* ---------------------------------------------------------- Preview client
\* FormPreviewClient in the browser. eventSource is the readyState of
\* this.eventSource ("null" when there is none); timeouts are the delays of
\* the pending setTimeout calls of reconnectWithBackoff, which nothing
\* cancels; scheduled lists the delays of the setTimeout calls made since
\* reconnectAttempts was last set to 0.
maxReconnectAttempts == 5
InitialReconnectDelay == 1000
MaxReconnectDelay == 16000

Constructed ==
  [eventSource |-> "null", reconnectAttempts |-> 0,
   reconnectDelay |-> InitialReconnectDelay,
   connectionState |-> "disconnected", isManualDisconnect |-> FALSE,
   timeouts |-> <<>>, reconnectUI |-> FALSE, shutdownUI |-> FALSE,
   reloading |-> FALSE, scheduled |-> <<>>]

\* connectToUpdates: an EventSource that exists is closed, a new one is made
ConnectToUpdates(cl) ==
  [cl EXCEPT !.isManualDisconnect = FALSE, !.connectionState = "connecting",
             !.eventSource = "connecting"]

\* the page script: new FormPreviewClient(...), connectToUpdates()
PageLoaded == ConnectToUpdates(Constructed)

HandleConnectionOpen(cl) ==
  [cl EXCEPT !.reconnectAttempts = 0, !.reconnectDelay = InitialReconnectDelay,
             !.connectionState = "connected", !.scheduled = <<>>]

ReconnectWithBackoff(cl) ==
  [cl EXCEPT !.reconnectAttempts = @ + 1,
             !.timeouts = Append(@, cl.reconnectDelay),
             !.scheduled = Append(@, cl.reconnectDelay)]

\* handleConnectionError, run for an error event of this.eventSource whose
\* readyState is cl.eventSource
HandleConnectionError(cl) ==
  IF cl.isManualDisconnect THEN cl
  ELSE IF cl.eventSource = "closed"
  THEN IF cl.reconnectAttempts < maxReconnectAttempts
       THEN ReconnectWithBackoff([cl EXCEPT !.connectionState = "reconnecting"])
       ELSE [cl EXCEPT !.connectionState = "disconnected", !.reconnectUI = TRUE]
  ELSE cl

\* an unchanged delay for the next attempt
NextDelaySame(delay) == delay

\* Math.min(this.reconnectDelay * 2, 16000)
NextDelay(delay) ==
  IF delay * 2 < MaxReconnectDelay THEN delay * 2 ELSE MaxReconnectDelay

\* the callback of the i-th pending setTimeout of reconnectWithBackoff
TimeoutCallback(cl, i) ==
  LET connected == ConnectToUpdates(cl)
  IN [connected EXCEPT
        !.timeouts = SubSeq(@, 1, i - 1) \o SubSeq(@, i + 1, Len(@)),
        !.reconnectDelay = NextDelay(@)]

ManualReconnect(cl) ==
  ConnectToUpdates([cl EXCEPT !.reconnectAttempts = 0,
                              !.reconnectDelay = InitialReconnectDelay,
                              !.reconnectUI = FALSE, !.scheduled = <<>>])

Disconnect(cl) ==
  [cl EXCEPT !.isManualDisconnect = TRUE, !.eventSource = "null",
             !.connectionState = "disconnected"]

\* handleServerClosing: disconnect(), showServerShutdownMessage()
HandleServerClosing(cl) == [Disconnect(cl) EXCEPT !.shutdownUI = TRUE]

\* handleDeletedEvent: disconnect(), showFormDeletedMessage()
HandleDeletedEvent(cl) == Disconnect(cl)

\* click on "Retry Connection" of the shutdown message
RetryConnection(cl) == ManualReconnect([cl EXCEPT !.shutdownUI = FALSE])

\* handleUpdateEvent up to its await: the page reloads half a second later
HandleUpdateEvent(cl) == [cl EXCEPT !.reloading = TRUE]

\* the preview pages that are open in browsers
Pages == {"p1", "p2"}

\* ------------------------------------------------------- Router cleanup
\* a cleanup that leaves the pending timeouts running
CleanupNotifierKeepsTimers(R, T) ==
  [router |-> [formWatchers |-> EmptyMap, connectionForms |-> EmptyMap,
               connectionActivity |-> EmptyMap],
   timers |-> [timers |-> T.timers, pendingNotifications |-> EmptyMap],
   idleCheckInterval |-> FALSE]

\* FormUpdateNotifier.cleanup(): clearInterval of the idle check,
\* clearTimeout of every value of pendingNotifications, the four maps
\* cleared
CleanupNotifier(R, T) ==
  [router |-> [formWatchers |-> EmptyMap, connectionForms |-> EmptyMap,
               connectionActivity |-> EmptyMap],
   timers |-> [timers |-> T.timers \ {T.pendingNotifications[f] :
                                        f \in DOMAIN T.pendingNotifications},
               pendingNotifications |-> EmptyMap],
   idleCheckInterval |-> FALSE]

\* a call of FormUpdateNotifier.cleanup()
CallNotifierCleanup ==
  /\ LET r == CleanupNotifier(Router, Timers)
     IN /\ SetRouter(r.router) /\ SetTimers(r.timers)
        /\ idleCheckInterval' = r.idleCheckInterval
  /\ UNCHANGED <<now, connections, heartbeatInterval, liveHeartbeats, res, inflight>>

\* ---------------------------------------------------------------- Shutdown
\* isShuttingDown is the flag of the signal handler; listening: the HTTP
\* server accepts connections; exited: process.exit ran; signals, cleanups
\* and closed count the signals received, the calls of SSEManager.cleanup()
\* and the connections the shutdown found.
Running == [isShuttingDown |-> FALSE, listening |-> TRUE, exited |-> FALSE,
            signals |-> 0, cleanups |-> 0, closed |-> 0]

\* a handler that does not look at the flag
GracefulShutdownUnguarded(sd, G, oc) ==
  [shutdown |-> [sd EXCEPT !.isShuttingDown = TRUE, !.listening = FALSE,
                           !.signals = @ + 1, !.cleanups = @ + 1,
                           !.closed = Cardinality(G.connections)],
   registry |-> CleanupRegistry(G, oc).registry]

\* gracefulShutdown(signal): the handler of SIGINT and of SIGTERM
GracefulShutdown(sd, G, oc) ==
  IF sd.isShuttingDown
  THEN [shutdown |-> [sd EXCEPT !.signals = @ + 1], registry |-> G]
  ELSE [shutdown |-> [sd EXCEPT !.isShuttingDown = TRUE, !.listening = FALSE,
                                !.signals = @ + 1, !.cleanups = @ + 1,
                                !.closed = Cardinality(G.connections)],
        registry |-> CleanupRegistry(G, oc).registry]

InitProgram ==
  /\ now = 0
  /\ connections = {}
  /\ heartbeatInterval = FALSE
  /\ liveHeartbeats = 0
  /\ res = [c \in Conns |-> "none"]
  /\ formWatchers = EmptyMap
  /\ connectionForms = EmptyMap
  /\ connectionActivity = EmptyMap
  /\ pendingNotifications = EmptyMap
  /\ timers = {}
  /\ idleCheckInterval = TRUE
  /\ inflight = <<>>

Init ==
  /\ InitProgram
  /\ lastNotify = NoNotify
  /\ lastRegister = NoRegister
  /\ lastCall = NoCall
  /\ burst = [f \in Forms |-> NoBurst]
  /\ dispatches = <<>>
  /\ streams = [c \in Conns |-> <<>>]
  /\ upstream = [f \in Forms |-> NoForm]
  /\ tool = NoTool
  /\ relay = NoRelay
  /\ client = [p \in Pages |-> PageLoaded]
  /\ shutdown = Running
  /\ atCall = [f \in Forms |-> {}]

\* -------------------------------------------------- Spec: the watch indices
\* Every operation of the Router and of the route; lastRegister records the
\* registerPreviewConnection call of the last step.
\* no frame is recorded
Unlogged == UNCHANGED <<dispatches, streams>>
\* the parts of the system other than the HTTP server, and the watchers
\* recorded for the pending timers
Elsewhere == UNCHANGED <<upstream, tool, relay, client, shutdown, atCall>>

NoNotifySeen ==
  lastNotify' = NoNotify /\ lastCall' = NoCall /\ Elsewhere /\ UNCHANGED burst /\ Unlogged
Unobserved == NoNotifySeen /\ lastRegister' = NoRegister

ObservedRegister(c, f) ==
  /\ Register(c, f)
  /\ lastRegister' = [conn |-> c, form |-> f, prev |-> MapGet(connectionForms, c)]
  /\ NoNotifySeen

Next ==
  \/ Tick /\ Unobserved
  \/ \E c \in Conns, f \in Forms, outcome \in WriteOutcomes :
       OpenPreviewStream(c, f, outcome) /\ Unobserved
  \/ \E c \in Conns : StreamClosed(c) /\ Unobserved
  \/ \E c \in Conns, f \in Forms : ObservedRegister(c, f)
  \/ \E c \in Conns : Unregister(c) /\ Unobserved
  \/ \E c \in Conns : UpdateActivity(c) /\ Unobserved
  \/ \E f \in Forms : NotifyFormUpdated(f, "p1", NoWrites) /\ Unobserved
  \/ \E f \in Forms : \E oc \in WriteChoices(f) :
       NotifyFormCreated(f, "p1", oc) /\ Unobserved
  \/ \E f \in Forms : \E oc \in WriteChoices(f) :
       NotifyFormDeleted(f, oc) /\ Unobserved
  \/ \E tm \in timers : \E oc \in WriteChoices(tm.formId) :
       TimerFires(tm, oc) /\ Unobserved
  \/ IdleSweep /\ Unobserved

Spec == Init /\ [][Next]_vars

\* ------------------------------------------- SpecNotify: the notifications
\* Every operation of the Router and of the route; lastNotify records the
\* notify call or timer callback of the last step and burst the
\* notifyFormUpdated calls of each form that no dispatch has answered yet.
\* Connections watch either form; the notify calls are for form f1.
NotifiedForms == {"f1"}

NoCallSeen ==
  /\ lastNotify' = NoNotify /\ lastRegister' = NoRegister /\ lastCall' = NoCall /\ Elsewhere
  /\ UNCHANGED burst /\ Unlogged

\* calls are counted up to 2, which stands for "two or more"
CountUp(n) == IF n < 2 THEN n + 1 ELSE n

ObservedUpdated(f, p) ==
  /\ NotifyFormUpdated(f, p, NoWrites)
  /\ lastNotify' =
       [Seen("notifyFormUpdated", f,
             NotifyFormUpdatedOp(Router, Registry, Timers, f, p, NoWrites, now),
             NoBurst, {})
          EXCEPT !.completion =
                   NotifyFormUpdatedCompletion(Router, Registry, f, NoWrites)]
  /\ burst' = [burst EXCEPT ![f] = [calls |-> CountUp(@.calls), at |-> now,
                                    formData |-> p]]
  /\ lastRegister' = NoRegister
  /\ lastCall' = NoCall /\ Elsewhere /\ Unlogged

ObservedCreated(f, p, oc) ==
  /\ NotifyFormCreated(f, p, oc)
  /\ lastNotify' =
       [Seen("notifyFormCreated", f,
             NotifyFormCreatedOp(Router, Registry, Timers, f, p, oc, now),
             NoBurst, {})
          EXCEPT !.completion =
                   NotifyFormCreatedCompletion(Router, Registry, f, oc)]
  /\ lastRegister' = NoRegister
  /\ lastCall' = NoCall /\ Elsewhere /\ Unlogged
  /\ UNCHANGED burst

ObservedDeleted(f, oc) ==
  /\ NotifyFormDeleted(f, oc)
  /\ lastNotify' =
       [Seen("notifyFormDeleted", f,
             NotifyFormDeletedOp(Router, Registry, Timers, f, None, oc, now),
             NoBurst, {})
          EXCEPT !.completion =
                   NotifyFormDeletedCompletion(Router, Registry, f, oc)]
  /\ burst' = [burst EXCEPT ![f] = NoBurst]
  /\ lastRegister' = NoRegister
  /\ lastCall' = NoCall /\ Elsewhere /\ Unlogged

ObservedTimer(tm, oc) ==
  /\ TimerFires(tm, oc)
  /\ lastNotify' =
       [Seen("timer", tm.formId,
             TimerCallback(Router, Registry, Timers, tm, oc),
             burst[tm.formId], {tm})
          EXCEPT !.completion =
                   TimerCallbackCompletion(Router, Registry, tm.formId, oc)]
  /\ burst' = [burst EXCEPT ![tm.formId] = NoBurst]
  /\ lastRegister' = NoRegister
  /\ lastCall' = NoCall /\ Elsewhere /\ Unlogged

NextNotify ==
  \/ Tick /\ NoCallSeen
  \/ \E c \in Conns, f \in Forms, outcome \in WriteOutcomes :
       OpenPreviewStream(c, f, outcome) /\ NoCallSeen
  \/ \E c \in Conns : StreamClosed(c) /\ NoCallSeen
  \/ \E c \in Conns, f \in Forms : Register(c, f) /\ NoCallSeen
  \/ \E c \in Conns : Unregister(c) /\ NoCallSeen
  \/ \E c \in Conns : UpdateActivity(c) /\ NoCallSeen
  \/ \E f \in NotifiedForms, p \in Payloads : ObservedUpdated(f, p)
  \/ \E f \in NotifiedForms : \E oc \in WriteChoices(f) :
       ObservedCreated(f, "p1", oc)
  \/ \E f \in NotifiedForms : \E oc \in WriteChoices(f) : ObservedDeleted(f, oc)
  \/ \E tm \in timers : \E oc \in WriteChoices(tm.formId) : ObservedTimer(tm, oc)
  \/ IdleSweep /\ NoCallSeen

SpecNotify == Init /\ [][NextNotify]_vars

\* ------------------------------------------ SpecPreview: the preview streams
\* The steps the running server takes for preview streams: the route opens
\* them, streams close, forms are notified, timers fire, the sweep runs.
\* Every connection of the Registry was added by the preview-updates route.
NextPreview ==
  \/ Tick /\ NoCallSeen
  \/ \E c \in Conns, f \in Forms, outcome \in WriteOutcomes :
       OpenPreviewStream(c, f, outcome) /\ NoCallSeen
  \/ \E c \in Conns : StreamClosed(c) /\ NoCallSeen
  \/ \E f \in NotifiedForms, p \in Payloads : ObservedUpdated(f, p)
  \/ \E f \in NotifiedForms : \E oc \in WriteChoices(f) :
       ObservedCreated(f, "p1", oc)
  \/ \E f \in NotifiedForms : \E oc \in WriteChoices(f) : ObservedDeleted(f, oc)
  \/ \E tm \in timers : \E oc \in WriteChoices(tm.formId) : ObservedTimer(tm, oc)
  \/ IdleSweep /\ NoCallSeen

SpecPreview == Init /\ [][NextPreview]_vars

\* ------------------------------------------- SpecOrder: the order of frames
\* A frame put first in the stream.
WriteFrameFirst(stream, frame) == <<frame>> \o stream

\* res.write(frame): the frame goes behind the frames written before
WriteFrame(stream, frame) == Append(stream, frame)

\* the streams after the send attempts of one sendNotification run, which is
\* dispatch number n: an attempt whose write returned (true, or false with
\* the frame buffered) has put its frame into the stream
RECURSIVE Deliver(_, _, _, _)
Deliver(S, run, attempts, n) ==
  IF attempts = <<>> THEN S
  ELSE LET a == Head(attempts)
           S1 == IF a.result \in {"sent", "full"}
                 THEN [S EXCEPT ![a.conn] =
                         WriteFrame(@, [formId |-> run.formId,
                                        event |-> a.event, dispatch |-> n])]
                 ELSE S
       IN Deliver(S1, run, Tail(attempts), n)

\* A step that made the sendNotification runs of r (at most one): a run that
\* found watchers is the next dispatch.
Logged(r) ==
  /\ lastNotify' = NoNotify /\ lastRegister' = NoRegister /\ lastCall' = NoCall /\ Elsewhere
  /\ UNCHANGED burst
  /\ IF r.runs = <<>> \/ r.runs[1].attempts = <<>>
     THEN Unlogged
     ELSE /\ Len(dispatches) < MaxDispatches
          /\ dispatches' = Append(dispatches,
                                  [formId |-> r.runs[1].formId,
                                   changeType |-> r.runs[1].changeType])
          /\ streams' = Deliver(streams, r.runs[1], r.runs[1].attempts,
                                Len(dispatches) + 1)

\* a stream is closed: the response object and what was written to it are
\* gone
ClosedStream(c) ==
  /\ StreamClosed(c)
  /\ lastNotify' = NoNotify /\ lastRegister' = NoRegister /\ lastCall' = NoCall /\ Elsewhere
  /\ UNCHANGED <<burst, dispatches>>
  /\ streams' = [streams EXCEPT ![c] = <<>>]

NextOrder ==
  \/ Tick /\ NoCallSeen
  \/ \E c \in Conns, f \in Forms :
       OpenPreviewStream(c, f, "ok") /\ NoCallSeen
  \/ \E c \in Conns : ClosedStream(c)
  \/ \E f \in NotifiedForms :
       /\ NotifyFormUpdated(f, "p1", NoWrites)
       /\ Logged(NotifyFormUpdatedOp(Router, Registry, Timers, f, "p1", NoWrites, now))
  \/ \E f \in NotifiedForms : \E oc \in WriteChoices(f) :
       /\ NotifyFormCreated(f, "p1", oc)
       /\ Logged(NotifyFormCreatedOp(Router, Registry, Timers, f, "p1", oc, now))
  \/ \E f \in NotifiedForms : \E oc \in WriteChoices(f) :
       /\ NotifyFormDeleted(f, oc)
       /\ Logged(NotifyFormDeletedOp(Router, Registry, Timers, f, None, oc, now))
  \/ \E tm \in timers : \E oc \in WriteChoices(tm.formId) :
       /\ TimerFires(tm, oc)
       /\ Logged(TimerCallback(Router, Registry, Timers, tm, oc))

SpecOrder == Init /\ [][NextOrder]_vars

\* --------------------------------------------- SpecRegistry: the Registry
\* The operations of the Registry, the idle sweep and the routes that open
\* and close streams; lastCall records the operation of the last step: its
\* connection, the value it returned and the res.write calls it made.
NotifyUnseen ==
  lastNotify' = NoNotify /\ lastRegister' = NoRegister /\ UNCHANGED burst
  /\ Unlogged /\ Elsewhere

Called(call) == lastCall' = call /\ NotifyUnseen

\* the connection set, the heartbeat state and the Router's indices
Snapshot ==
  [connections |-> connections, heartbeatInterval |-> heartbeatInterval,
   liveHeartbeats |-> liveHeartbeats, formWatchers |-> formWatchers,
   connectionForms |-> connectionForms,
   connectionActivity |-> connectionActivity]

\* the tracked connections whose last activity is older than the threshold
Overdue ==
  {c \in DOMAIN connectionActivity : now - connectionActivity[c] > IdleTimeout}

\* a preview stream is opened (the before field holds the state it found)
OpenSeen(c, f, outcome) ==
  /\ OpenPreviewStream(c, f, outcome)
  /\ IF Cardinality(DOMAIN connectionForms) >= MaxPreviewConnections
     THEN Called([NoCall EXCEPT !.op = "rejected", !.conn = c])
     ELSE Called([NoCall EXCEPT !.op = "open", !.conn = c, !.before = Snapshot,
                                !.pair = "opened"])

\* The steps that take a connection out again.  pair follows a stream from
\* the step that opened it while the steps after it only take it out: it is
\* "undone" once the connection was both removed from the Registry and
\* unregistered from the Router, and before keeps the state the opening
\* step found.
Undoing(c, op, from, to) ==
  IF lastCall.pair = from /\ lastCall.conn = c
  THEN Called([NoCall EXCEPT !.op = op, !.conn = c, !.before = lastCall.before,
                             !.pair = to])
  ELSE Called([NoCall EXCEPT !.op = op, !.conn = c])

\* a stream is closed: both callbacks run
ClosedSeen(c) ==
  /\ StreamClosed(c)
  /\ Undoing(c, "close", "opened", "undone")

\* a call of removeConnection(c)
RemovedSeen(c) ==
  /\ CallRemoveConnection(c)
  /\ IF lastCall.pair = "unregistered"
     THEN Undoing(c, "removeConnection", "unregistered", "undone")
     ELSE Undoing(c, "removeConnection", "opened", "removed")

\* a call of unregisterPreviewConnection(c)
UnregisterSeen(c) ==
  /\ Unregister(c)
  /\ IF lastCall.pair = "removed"
     THEN Undoing(c, "unregister", "removed", "undone")
     ELSE Undoing(c, "unregister", "opened", "unregistered")

NextRegistry ==
  \/ Tick /\ Called(NoCall)
  \/ \E c \in Conns, f \in Forms, outcome \in WriteOutcomes :
       OpenSeen(c, f, outcome)
  \/ \E c \in Conns, outcome \in WriteOutcomes :
       OpenSseStream(c, outcome) /\ Called([NoCall EXCEPT !.op = "sse", !.conn = c])
  \/ \E c \in Conns : ClosedSeen(c)
  \/ \E c \in Conns, f \in Forms :
       Register(c, f) /\ Called([NoCall EXCEPT !.op = "register", !.conn = c])
  \/ \E c \in Conns :
       UpdateActivity(c)
       /\ Called([NoCall EXCEPT !.op = "updateActivity", !.conn = c])
  \/ IdleSweep /\ Called([NoCall EXCEPT !.op = "idleSweep", !.idle = Overdue])
  \/ \E c \in Conns, outcome \in WriteOutcomes :
       /\ CallSendMessage(c, outcome)
       /\ LET r == SendMessage(Registry, c, outcome)
          IN Called([NoCall EXCEPT !.op = "sendMessage", !.conn = c,
                                   !.ok = r.result, !.writes = r.writes,
                                   !.outcomes[c] = outcome])
  \/ \E oc \in RegistryWriteChoices :
       /\ CallBroadcast(oc)
       /\ LET r == Broadcast(Registry, "message", oc)
          IN Called([NoCall EXCEPT !.op = "broadcast", !.count = r.result,
                                   !.writes = r.writes, !.outcomes = oc])
  \/ \E oc \in RegistryWriteChoices :
       /\ HeartbeatTick(oc)
       /\ LET r == Heartbeat(Registry, oc)
          IN Called([NoCall EXCEPT !.op = "heartbeat", !.count = r.result,
                                   !.writes = r.writes, !.outcomes = oc])
  \/ \E c \in Conns : RemovedSeen(c)
  \/ \E c \in Conns : UnregisterSeen(c)
  \/ \E oc \in RegistryWriteChoices :
       /\ CallCleanup(oc)
       /\ LET r == CleanupRegistry(Registry, oc)
          IN Called([NoCall EXCEPT !.op = "cleanup", !.count = r.result,
                                   !.writes = r.writes])

SpecRegistry == Init /\ [][NextRegistry]_vars

\* The 'close' event of a stream that was ended is emitted.
SpecRegistryFair ==
  SpecRegistry /\ \A c \in Conns : WF_vars(res[c] = "ended" /\ ClosedSeen(c))

\* ------------------------------------------------- SpecBridge: the Bridge
\* The Bridge over the Registry: streams are opened, closed and removed,
\* requests arrive on the direct endpoint and through handleRequest.
\* lastCall records the request, the handlers invoked, the response and the
\* frames written by the last step.
Handled(c, message, run, outcome, h) ==
  [NoCall EXCEPT !.op = h.op, !.conn = c, !.request = message, !.run = run,
                 !.response = h.response, !.invoked = h.invoked,
                 !.threw = h.threw, !.ok = h.ok, !.frames = h.frames,
                 !.outcomes = [d \in Conns |-> IF d = c THEN outcome ELSE "ok"]]

DirectSeen(message, run) ==
  /\ DirectRequest(message, run)
  /\ LET r == HandleRequestSync(MessageHandlers, message, run)
     IN Called([NoCall EXCEPT !.op = "handleRequestSync", !.request = message,
                              !.run = run, !.response = r.response,
                              !.invoked = r.invoked, !.threw = r.threw])

HandleRequestSeen(c, message, run, outcome) ==
  /\ HandleRequest(c, message, run, outcome)
  /\ Called(Handled(c, message, run, outcome,
                    HandleRequestOp(Registry, MessageHandlers, c, message, run,
                                    outcome)))

ResumedSeen(i, outcome) ==
  /\ HandleRequestResumes(i, outcome)
  /\ LET call == inflight[i]
     IN Called(Handled(call.conn, call.message, call.run, outcome,
                       HandleRequestRest(Registry, MessageHandlers, call,
                                         outcome)))

NextBridge ==
  \/ \E c \in Conns, outcome \in WriteOutcomes :
       OpenSseStream(c, outcome) /\ Called([NoCall EXCEPT !.op = "sse", !.conn = c])
  \/ \E c \in Conns : ClosedSeen(c)
  \/ \E message \in Messages : \E run \in RunsOf(message) :
       DirectSeen(message, run)
  \/ \E c \in Conns, message \in StreamMessages :
       \E run \in RunsOf(message) :
         \E outcome \in ResponseWriteChoices(c, message, run) :
           HandleRequestSeen(c, message, run, outcome)
  \/ \E i \in 1..Len(inflight), outcome \in WriteOutcomes :
       ResumedSeen(i, outcome)

SpecBridge == Init /\ [][NextBridge]_vars

\* ============================================================== properties
WatcherSet(f) == IF f \in DOMAIN formWatchers THEN formWatchers[f] ELSE {}

\* C1: the forward and the reverse index agree.  A connection is in the
\* watcher set of form f exactly when the reverse index maps it to f; hence
\* every connection is in at most one watcher set and the union of the
\* watcher sets is the key set of the reverse index; no form maps to an
\* empty set.
C1_IndicesAgree ==
  /\ \A f \in DOMAIN formWatchers : formWatchers[f] # {}
  /\ \A f \in DOMAIN formWatchers : \A c \in formWatchers[f] :
       c \in DOMAIN connectionForms /\ connectionForms[c] = f
  /\ \A c \in DOMAIN connectionForms :
       /\ connectionForms[c] \in DOMAIN formWatchers
       /\ c \in formWatchers[connectionForms[c]]
  /\ \A c \in Conns :
       Cardinality({f \in DOMAIN formWatchers : c \in formWatchers[f]}) <= 1
  /\ UNION {formWatchers[f] : f \in DOMAIN formWatchers} = DOMAIN connectionForms

\* C1 happens: the last watcher of a form left it (its set is gone) while
\* the other form is watched by both connections.
C1_Witness ==
  /\ lastRegister.prev = "f1" /\ lastRegister.form = "f2"
  /\ DOMAIN formWatchers = {"f2"}
  /\ formWatchers["f2"] = Conns
  /\ DOMAIN connectionForms = Conns

\* C9: registering connection c, which watches f1, for a different form f2
\* unregisters the old watch first.  Afterwards the reverse index maps c to
\* f2, c is in the watcher set of f2 and of no other form, and the set of
\* f1 is deleted if c was its only watcher and otherwise only lost c.
C9_ReRegisterMovesWatch ==
  [][ (Truthy(lastRegister'.prev) /\ lastRegister'.prev # lastRegister'.form) =>
        LET c == lastRegister'.conn
            f1 == lastRegister'.prev
            f2 == lastRegister'.form
        IN /\ MapGet(connectionForms, c) = f1
           /\ MapGet(connectionForms', c) = f2
           /\ f2 \in DOMAIN formWatchers'
           /\ formWatchers'[f2] = WatcherSet(f2) \cup {c}
           /\ \A f \in DOMAIN formWatchers' \ {f2} : c \notin formWatchers'[f]
           /\ IF WatcherSet(f1) = {c} THEN f1 \notin DOMAIN formWatchers'
              ELSE /\ f1 \in DOMAIN formWatchers'
                   /\ formWatchers'[f1] = WatcherSet(f1) \ {c}
           /\ connectionActivity'[c] = now
    ]_vars

\* C9 happens: c1 moved from f1 to f2 while c2 stays a watcher of f1.
C9_Witness ==
  /\ lastRegister = [conn |-> "c1", form |-> "f2", prev |-> "f1"]
  /\ "f1" \in DOMAIN formWatchers /\ formWatchers["f1"] = {"c2"}
  /\ "f2" \in DOMAIN formWatchers /\ formWatchers["f2"] = {"c1"}

\* C10: registering connection c for the form it already watches changes
\* neither the forward index, nor the reverse index, nor the key set of the
\* activity index; only the activity timestamp of c is set to the current
\* time.
C10_SameFormRegisterIdempotent ==
  [][ (Truthy(lastRegister'.prev) /\ lastRegister'.prev = lastRegister'.form) =>
        LET c == lastRegister'.conn
        IN /\ formWatchers' = formWatchers
           /\ connectionForms' = connectionForms
           /\ DOMAIN connectionActivity' = DOMAIN connectionActivity
           /\ connectionActivity'[c] = now
           /\ \A d \in DOMAIN connectionActivity \ {c} :
                connectionActivity'[d] = connectionActivity[d]
    ]_vars

\* C10 happens: c1 was registered again for f1, which it watched since time
\* 0, at a later time, next to another watcher of f1.
C10_Witness ==
  /\ lastRegister = [conn |-> "c1", form |-> "f1", prev |-> "f1"]
  /\ now > 0 /\ connectionActivity["c1"] = now
  /\ "c2" \in DOMAIN connectionActivity /\ connectionActivity["c2"] = 0
  /\ formWatchers["f1"] = Conns

\* ------------------------------------------- properties of the notifications
\* the positions of the attempts of a run that went to connection c
AttemptsTo(run, c) == {i \in DOMAIN run.attempts : run.attempts[i].conn = c}

\* a run attempted every connection that watched the form when it started
\* exactly once, with event ev, and attempted nobody else; a connection the
\* Registry has had the frame handed to its stream
OnePerWatcher(run, watchers, ev) ==
  /\ \A c \in watchers : Cardinality(AttemptsTo(run, c)) = 1
  /\ \A i \in DOMAIN run.attempts :
       /\ run.attempts[i].conn \in watchers
       /\ run.attempts[i].event = ev
       /\ HasConnection(Registry, run.attempts[i].conn) =>
            run.attempts[i].result \in {"sent", "full", "threw"}

\* C2: the notifyFormUpdated calls for a form that no dispatch has answered
\* yet (a burst) are held by exactly one live timer, due one debounce
\* interval after the last call and carrying the last call's payload; when
\* it fires, not before that time, one dispatch answers the whole burst
\* with the last payload, and every connection watching the form at that
\* moment gets exactly one form-update event of change type "updated".
C2_BurstCoalesced ==
  /\ \A f \in Forms :
       LET live == {tm \in timers : tm.formId = f}
       IN IF burst[f].calls = 0
          THEN live = {} /\ f \notin DOMAIN pendingNotifications
          ELSE /\ f \in DOMAIN pendingNotifications
               /\ live = {pendingNotifications[f]}
               /\ pendingNotifications[f] =
                    [formId |-> f, changeType |-> "updated",
                     formData |-> burst[f].formData,
                     due |-> burst[f].at + DebounceInterval]
  /\ lastNotify.op = "timer" =>
       /\ lastNotify.calls >= 1
       /\ now >= lastNotify.at + DebounceInterval
       /\ Len(lastNotify.runs) = 1
       /\ lastNotify.runs[1].formId = lastNotify.formId
       /\ lastNotify.runs[1].changeType = "updated"
       /\ lastNotify.runs[1].formData = lastNotify.lastData
       /\ OnePerWatcher(lastNotify.runs[1], lastNotify.watchers, "form-update")
       /\ burst[lastNotify.formId].calls = 0

\* C2 happens: two calls (payload p1 then p2, or more) were answered by one
\* dispatch exactly one debounce interval after the last of them, with p2,
\* and both watchers were sent the event.
C2_Witness ==
  /\ lastNotify.op = "timer" /\ lastNotify.calls = 2
  /\ now = lastNotify.at + DebounceInterval
  /\ lastNotify.runs[1].formData = "p2"
  /\ lastNotify.watchers = Conns
  /\ \A i \in DOMAIN lastNotify.runs[1].attempts :
       lastNotify.runs[1].attempts[i].result = "sent"

\* C3: a notifyFormDeleted call attempts exactly one form-deleted event to
\* every connection that watched the form when the call started (a
\* connection whose stream accepts writes is sent it); when the call
\* returns the form has no watcher and none of those connections has a form.
C3_DeletedNotifiesThenUnwatches ==
  lastNotify.op = "notifyFormDeleted" =>
    /\ Len(lastNotify.runs) = 1
    /\ lastNotify.runs[1].changeType = "deleted"
    /\ OnePerWatcher(lastNotify.runs[1], lastNotify.watchers, "form-deleted")
    /\ GetConnectionsByForm(Router, lastNotify.formId) = <<>>
    /\ \A c \in lastNotify.watchers : GetFormByConnection(Router, c) = None

\* C3 happens: c1 and c2 watched the deleted form and both were sent the
\* event.
C3_Witness ==
  /\ lastNotify.op = "notifyFormDeleted"
  /\ lastNotify.watchers = Conns
  /\ Len(lastNotify.runs[1].attempts) = 2
  /\ \A i \in DOMAIN lastNotify.runs[1].attempts :
       lastNotify.runs[1].attempts[i].result = "sent"

\* C4: when notifyFormDeleted returns, every connection that watched the
\* form before the call is closed and absent from the Registry.
C4_FormerWatchersClosed ==
  lastNotify.op = "notifyFormDeleted" =>
    \A c \in lastNotify.watchers :
      ~HasConnection(Registry, c) /\ res[c] # "open"

\* C5: when notifyFormDeleted returns the form has no pending timer; every
\* live timer is the pending one of its form and holds notifyFormUpdated
\* calls made after the last deletion of the form, so every "updated"
\* dispatch answers such a call.
C5_DeleteCancelsPending ==
  /\ lastNotify.op = "notifyFormDeleted" =>
       /\ lastNotify.formId \notin DOMAIN pendingNotifications
       /\ \A tm \in timers : tm.formId # lastNotify.formId
  /\ \A tm \in timers :
       /\ tm.formId \in DOMAIN pendingNotifications
       /\ pendingNotifications[tm.formId] = tm
       /\ burst[tm.formId].calls >= 1
  /\ \A i \in DOMAIN lastNotify.runs :
       lastNotify.runs[i].changeType = "updated" =>
         lastNotify.op = "timer" /\ lastNotify.calls >= 1

\* C5 happens: a deletion cancelled a pending timer and its event was sent
\* to a watcher.
C5_Witness ==
  /\ lastNotify.op = "notifyFormDeleted" /\ lastNotify.cleared
  /\ \E i \in DOMAIN lastNotify.runs[1].attempts :
       lastNotify.runs[1].attempts[i].result = "sent"

\* C6 as stated: after notifyFormCreated the form has no pending timer.
C6_CreatedCancelsPending ==
  lastNotify.op = "notifyFormCreated" =>
    lastNotify.formId \notin DOMAIN pendingNotifications

\* C6: notifyFormCreated dispatches at once and leaves the timers alone: a
\* pending update of the form stays pending with its timer live.
C6_CreatedKeepsPending ==
  [][ lastNotify'.op = "notifyFormCreated" =>
        /\ Len(lastNotify'.runs) = 1
        /\ lastNotify'.runs[1].changeType = "created"
        /\ timers' = timers
        /\ pendingNotifications' = pendingNotifications
    ]_vars

\* C6 happens: a creation was sent to a watcher while an update of the same
\* form is pending, and the update's timer is still live.
C6_Witness ==
  /\ lastNotify.op = "notifyFormCreated"
  /\ burst[lastNotify.formId].calls >= 1
  /\ lastNotify.formId \in DOMAIN pendingNotifications
  /\ pendingNotifications[lastNotify.formId] \in timers
  /\ \E i \in DOMAIN lastNotify.runs[1].attempts :
       lastNotify.runs[1].attempts[i].result = "sent"

\* C7: every notifyFormCreated and every notifyFormDeleted call makes
\* exactly one dispatch for its form inside the call and schedules no
\* timer; the dispatch attempts at most one event per watcher.
C7_ImmediateDispatchOncePerCall ==
  lastNotify.op \in {"notifyFormCreated", "notifyFormDeleted"} =>
    /\ Len(lastNotify.runs) = 1
    /\ lastNotify.runs[1].formId = lastNotify.formId
    /\ lastNotify.runs[1].changeType =
         (IF lastNotify.op = "notifyFormCreated" THEN "created" ELSE "deleted")
    /\ ~lastNotify.scheduled
    /\ \A c \in Conns : Cardinality(AttemptsTo(lastNotify.runs[1], c)) <= 1
    /\ \A i \in DOMAIN lastNotify.runs[1].attempts :
         lastNotify.runs[1].attempts[i].conn \in lastNotify.watchers

\* C7 happens: a creation was dispatched to two watchers while an update of
\* the form is pending.
C7_Witness ==
  /\ lastNotify.op = "notifyFormCreated"
  /\ lastNotify.watchers = Conns
  /\ Len(lastNotify.runs[1].attempts) = 2
  /\ lastNotify.formId \in DOMAIN pendingNotifications

\* C8: a watcher whose stream write threw during a dispatch is in neither
\* Router index when the dispatch ends.
C8_ThrowingWatcherRemoved ==
  \A i \in DOMAIN lastNotify.runs :
    \A j \in DOMAIN lastNotify.runs[i].attempts :
      lastNotify.runs[i].attempts[j].result = "threw" =>
        /\ lastNotify.runs[i].attempts[j].conn \notin DOMAIN connectionForms
        /\ lastNotify.runs[i].attempts[j].conn \notin
             WatcherSet(lastNotify.runs[i].formId)

\* ------------------------------------------------ properties of the Registry
InSomeWatcherSet(fw, c) == \E f \in DOMAIN fw : c \in fw[f]

C12_SweepNeverEarly ==
  [][ /\ lastCall'.op = "idleSweep" =>
           \A c \in Conns :
             (c \notin DOMAIN connectionActivity
              \/ now - connectionActivity[c] <= IdleTimeout) =>
               /\ DOMAIN connectionActivity' \cap {c} =
                    DOMAIN connectionActivity \cap {c}
               /\ c \in DOMAIN connectionActivity =>
                    connectionActivity'[c] = connectionActivity[c]
               /\ MapGet(connectionForms', c) = MapGet(connectionForms, c)
               /\ \A f \in Forms : c \in WatcherSet(f) =>
                    f \in DOMAIN formWatchers' /\ c \in formWatchers'[f]
               /\ res'[c] = res[c]
               /\ (c \in connections') = (c \in connections)
      /\ (lastCall'.op = "updateActivity"
            /\ lastCall'.conn \in DOMAIN connectionActivity) =>
           /\ connectionActivity'[lastCall'.conn] = now
           /\ formWatchers' = formWatchers
           /\ connectionForms' = connectionForms
      /\ lastCall'.op = "register" =>
           connectionActivity'[lastCall'.conn] = now
      /\ \A c \in DOMAIN connectionActivity' : connectionActivity'[c] <= now'
    ]_vars

\* C12 happens: a sweep evicted a connection and kept c2, which has been
\* idle for exactly the threshold.
C12_Witness ==
  /\ lastCall.op = "idleSweep" /\ lastCall.idle # {}
  /\ "c2" \in DOMAIN connectionActivity
  /\ now - connectionActivity["c2"] = IdleTimeout
  /\ "c2" \in connections /\ res["c2"] = "open"

\* C13: the heartbeat timer runs exactly when the Registry holds at least
\* one connection, and there is never more than one live heartbeat timer.
C13_HeartbeatIffConnections ==
  /\ heartbeatInterval <=> connections # {}
  /\ liveHeartbeats = (IF heartbeatInterval THEN 1 ELSE 0)

\* C13 happens: a heartbeat tick whose write threw removed the last
\* connection, and the heartbeat is stopped.
C13_Witness ==
  /\ lastCall.op = "heartbeat" /\ lastCall.count = 1
  /\ connections = {} /\ ~heartbeatInterval /\ liveHeartbeats = 0

\* the Registry is the same before and after the step
RegistryUnchanged ==
  UNCHANGED <<connections, heartbeatInterval, liveHeartbeats, res>>

\* C14: a connection that is not (any longer) in the Registry is written to
\* by no sendMessage, broadcast or heartbeat; sendMessage to it returns
\* false; removeConnection of it changes nothing.
C14_RemovedGetsNothing ==
  [][LET call == lastCall'
     IN /\ call.op \in {"sendMessage", "broadcast", "heartbeat"} =>
             \A i \in 1..Len(call.writes) : call.writes[i].conn \in connections
        /\ call.op = "sendMessage" /\ call.conn \notin connections =>
             ~call.ok /\ call.writes = <<>> /\ RegistryUnchanged
        /\ call.op = "removeConnection" /\ call.conn \notin connections =>
             RegistryUnchanged]_vars

\* C14 happens: sendMessage to a connection that was removed earlier
\* returned false without a write, while another connection is registered.
C14_Witness ==
  /\ lastCall.op = "sendMessage" /\ lastCall.conn \in Conns
  /\ lastCall.conn \notin connections /\ res[lastCall.conn] = "ended"
  /\ ~lastCall.ok /\ lastCall.writes = <<>>
  /\ connections # {}

\* C15: adding and registering a connection and then at once removing and
\* unregistering it, in either order, leaves the connection set, the
\* heartbeat state and the Router's three indices as they were before.
C15_OpenThenCloseRestores ==
  lastCall.pair = "undone" => Snapshot = lastCall.before

\* C15 happens: the first connection was opened (starting the heartbeat),
\* unregistered and then removed by separate calls.
C15_Witness ==
  /\ lastCall.pair = "undone" /\ lastCall.op = "removeConnection"
  /\ lastCall.before.connections = {} /\ res[lastCall.conn] = "ended"
  /\ lastCall.before.connectionForms = EmptyMap

\* the streams of every connection but c are as before the step
OthersUntouched(c) == \A d \in Conns \ {c} : res'[d] = res[d]

\* C16: sendMessage returns true exactly when the connection is registered
\* and the stream accepted the write.  With a full buffer it returns false
\* and the connection stays registered; when the write throws it returns
\* false and removes that connection only.
C16_SendMessageResult ==
  [][LET call == lastCall'
         c == call.conn
     IN call.op = "sendMessage" =>
          /\ call.ok <=> (c \in connections /\ call.outcomes[c] = "ok")
          /\ c \in connections /\ call.outcomes[c] # "throw" =>
               RegistryUnchanged
          /\ c \in connections /\ call.outcomes[c] = "throw" =>
               /\ ~call.ok
               /\ connections' = connections \ {c}
               /\ OthersUntouched(c)]_vars

\* C16 happens: the write of a sendMessage threw; the call returned false
\* and removed the connection while another one stays registered.
C16_Witness ==
  /\ lastCall.op = "sendMessage" /\ lastCall.conn \in Conns
  /\ lastCall.outcomes[lastCall.conn] = "throw" /\ lastCall.writes # <<>>
  /\ ~lastCall.ok /\ lastCall.conn \notin connections
  /\ connections # {}

\* the connections a write operation wrote to, given its res.write calls
WrittenTo(writes) == {writes[i].conn : i \in 1..Len(writes)}

\* C17: a heartbeat tick writes one keep-alive frame to every registered
\* connection, also to those after one that threw; exactly the connections
\* whose write threw are removed, during the tick.
C17_HeartbeatEvictsThrowing ==
  [][LET call == lastCall'
         thrown == {c \in connections : call.outcomes[c] = "throw"}
     IN call.op = "heartbeat" =>
          /\ WrittenTo(call.writes) = connections
          /\ Len(call.writes) = Cardinality(connections)
          /\ \A i \in 1..Len(call.writes) : call.writes[i].event = "heartbeat"
          /\ connections' = connections \ thrown
          /\ call.count = Cardinality(thrown)
          /\ \A c \in connections \ thrown : res'[c] = res[c]
          /\ \A c \in thrown : res'[c] = "ended"]_vars

\* C17 happens: a tick over two connections where the write to the first
\* threw: both were written to, the first is gone, the second is kept.
C17_Witness ==
  /\ lastCall.op = "heartbeat" /\ Len(lastCall.writes) = 2
  /\ lastCall.outcomes[lastCall.writes[1].conn] = "throw"
  /\ lastCall.writes[1].conn \notin connections
  /\ lastCall.writes[2].conn \in connections

\* -------------------------------------------------- properties of the Bridge
\* the steps that have run handleRequestSync to its end
Answered ==
  lastCall.op \in {"handleRequestSync", "handleRequest", "handleRequestRest"}

\* C18: for a request whose method has no registered handler,
\* handleRequestSync invokes no handler and returns an error response with
\* code -32601 and the id of the request.
C18_MethodNotFound ==
  (/\ Answered
   /\ lastCall.request.method # None
   /\ lastCall.request.method \notin DOMAIN MessageHandlers) =>
     /\ lastCall.invoked = <<>>
     /\ ~lastCall.threw
     /\ lastCall.response.code = MethodNotFound
     /\ lastCall.response.id = lastCall.request.id
     /\ lastCall.response.result = None

\* C18 happens: the request {id: 1, method: "unknown_method"} was answered
\* on the direct endpoint.
C18_Witness ==
  /\ lastCall.op = "handleRequestSync"
  /\ lastCall.request = [method |-> "unknown_method", id |-> Id(1)]
  /\ lastCall.response.code = MethodNotFound

DroppedUnknown(call) ==
  call.op \in {"dropped", "waiting", "handleRequest"} =>
    /\ call.op = "dropped" <=> call.conn \notin connections
    /\ call.op = "dropped" =>
         /\ call.invoked = <<>> /\ call.frames = <<>>
         /\ RegistryUnchanged /\ UNCHANGED inflight

\* the step of handleRequest that calls sendResponse
Sends(call) == call.op \in {"handleRequest", "handleRequestRest"}

\* every frame of the call is a message event with the response of the
\* call, written to the connection of the call; no other stream changes
OnlyToCaller(call) ==
  /\ \A i \in 1..Len(call.frames) :
       call.frames[i] = [conn |-> call.conn, event |-> "message",
                         data |-> call.response]
  /\ OthersUntouched(call.conn)
  /\ connections' \ {call.conn} = connections \ {call.conn}

\* C20 as stated: handleRequest for an unknown connection drops the message;
\* for a connection that exists it pushes exactly one message event with
\* the response to that connection only.
C20_ExactlyOneMessageEvent ==
  [][LET call == lastCall'
     IN /\ DroppedUnknown(call)
        /\ Sends(call) => OnlyToCaller(call) /\ Len(call.frames) = 1]_vars

\* C20, amended: handleRequest for an unknown connection drops the message;
\* for a connection that exists the handler is invoked at most once and
\* sendMessage is called once, for that connection only: one message event
\* with the response is written when the connection is still registered at
\* that moment, none when it was removed while the handler was waiting.
C20_OneSendToCaller ==
  [][LET call == lastCall'
     IN /\ DroppedUnknown(call)
        /\ call.op = "waiting" =>
             /\ call.invoked = <<call.request.method>>
             /\ call.frames = <<>> /\ RegistryUnchanged
             /\ Len(inflight') = Len(inflight) + 1
        /\ call.op = "handleRequest" => Len(call.invoked) <= 1
        /\ call.op = "handleRequestRest" =>
             /\ call.invoked = <<>>
             /\ Len(inflight') = Len(inflight) - 1
        /\ Sends(call) =>
             /\ OnlyToCaller(call)
             /\ Len(call.frames) = (IF call.conn \in connections THEN 1 ELSE 0)
             /\ call.ok <=> (call.conn \in connections
                             /\ call.outcomes[call.conn] = "ok")]_vars

\* C20 happens: a tools/call arrived for a registered connection, the
\* connection was removed while the tool request was awaited, and the
\* response was written nowhere; another connection is still registered.
C20_Witness ==
  /\ lastCall.op = "handleRequestRest" /\ lastCall.request.method = "tools/call"
  /\ lastCall.conn \notin connections /\ lastCall.frames = <<>>
  /\ lastCall.response.code = 0
  /\ connections # {}

\* ------------------------------------------ properties of the preview route
\* the preview streams the Registry holds
PreviewStreams == connections

\* C21: the number of preview streams that the route added to the Registry
\* and that were not removed from it never exceeds maxPreviewConnections.
C21_PreviewStreamsWithinLimit ==
  Cardinality(PreviewStreams) <= MaxPreviewConnections

\* C22: a preview-stream request that arrives when the Router tracks
\* maxPreviewConnections connections is rejected (503) and creates no state:
\* the connection set, the heartbeat, the streams and the Router's indices
\* are as before.
C22_RejectedCreatesNothing ==
  [][LET call == lastCall'
     IN (/\ call.op \in {"open", "rejected"}
         /\ Cardinality(DOMAIN connectionForms) >= MaxPreviewConnections) =>
          /\ call.op = "rejected"
          /\ RegistryUnchanged
          /\ UNCHANGED <<formWatchers, connectionForms, connectionActivity>>]_vars

\* C22 happens: a request was rejected while a stream is open and the
\* Router tracks as many connections as the limit allows.
C22_Witness ==
  /\ lastCall.op = "rejected"
  /\ Cardinality(DOMAIN connectionForms) = MaxPreviewConnections
  /\ connections # {} /\ lastCall.conn \notin connections
  /\ res[lastCall.conn] = "none"

\* ------------------------------------------------- properties of the order
\* the dispatch numbers of the frames of form f in a stream, in stream order
RECURSIVE DispatchesOf(_, _)
DispatchesOf(stream, f) ==
  IF stream = <<>> THEN <<>>
  ELSE (IF Head(stream).formId = f THEN <<Head(stream).dispatch>> ELSE <<>>)
       \o DispatchesOf(Tail(stream), f)

Increasing(ns) == \A i, j \in 1..Len(ns) : i < j => ns[i] < ns[j]

\* C23: on every connection the frames of a form stand in the order of
\* their dispatches (the call for created and deleted, the firing of the
\* timer for updated), and each frame is the event of its dispatch.
C23_FramesInDispatchOrder ==
  \A c \in Conns :
    /\ \A f \in Forms : Increasing(DispatchesOf(streams[c], f))
    /\ \A i \in 1..Len(streams[c]) :
         LET frame == streams[c][i]
         IN /\ frame.dispatch \in 1..Len(dispatches)
            /\ dispatches[frame.dispatch].formId = frame.formId
            /\ EventFor(dispatches[frame.dispatch].changeType) = frame.event

\* C23 happens: a stream holds the frames of two dispatches of form f1, the
\* debounced update and the deletion after it.
C23_Witness ==
  /\ Len(dispatches) = 2
  /\ dispatches[1] = [formId |-> "f1", changeType |-> "updated"]
  /\ dispatches[2] = [formId |-> "f1", changeType |-> "deleted"]
  /\ DispatchesOf(streams["c1"], "f1") = <<1, 2>>
  /\ streams["c1"][2].event = "form-deleted"

\* ------------------------------------------ properties of the containment
\* the results of the send attempts of the last notify step
AttemptResults ==
  UNION {{lastNotify.runs[i].attempts[j].result :
            j \in 1..Len(lastNotify.runs[i].attempts)} :
           i \in 1..Len(lastNotify.runs)}

\* C24: notifyFormCreated, notifyFormUpdated, notifyFormDeleted and the
\* timer callback complete normally, whatever the writes to the watchers'
\* streams do and whether or not the Registry has the watchers.
C24_NotifyNeverThrows ==
  lastNotify.op # None => lastNotify.completion = "normal"

\* C24 happens: a deletion was dispatched to two watchers, the write to one
\* threw and the Registry does not have the other.
C24_Witness ==
  /\ lastNotify.op = "notifyFormDeleted"
  /\ Len(lastNotify.runs) = 1 /\ Len(lastNotify.runs[1].attempts) = 2
  /\ AttemptResults = {"threw", "notfound"}
  /\ lastNotify.completion = "normal"

\* C30: a dispatch attempts every watcher of the snapshot exactly once and
\* classifies it as success (the write returned true), soft failure (the
\* send failed, the Registry has the connection) or dead (the Registry does
\* not have it); the dead ones are unregistered, the others stay registered
\* when the dispatch ends.
C30_DispatchClassifies ==
  \A i \in 1..Len(lastNotify.runs) :
    LET attempts == lastNotify.runs[i].attempts
        f == lastNotify.formId
    IN /\ {attempts[j].conn : j \in 1..Len(attempts)} = lastNotify.watchers
       /\ Len(attempts) = Cardinality(lastNotify.watchers)
       /\ \A j \in 1..Len(attempts) :
            LET a == attempts[j]
            IN /\ a.result = "sent" => a.conn \in connections /\ ~a.dead
               /\ a.dead <=> a.conn \notin connections
               /\ a.dead => /\ a.conn \notin DOMAIN connectionForms
                            /\ a.conn \notin WatcherSet(f)
               /\ (~a.dead /\ lastNotify.op # "notifyFormDeleted") =>
                    /\ MapGet(connectionForms, a.conn) = f
                    /\ a.conn \in WatcherSet(f)

\* C30 happens: a dispatch to two watchers, one dead and one whose write was
\* not accepted: the dead one is unregistered, the other still watches.
C30_Witness ==
  /\ lastNotify.op = "notifyFormCreated"
  /\ Len(lastNotify.runs) = 1 /\ Len(lastNotify.runs[1].attempts) = 2
  /\ AttemptResults = {"notfound", "full"}
  /\ Cardinality(WatcherSet(lastNotify.formId)) = 1
  /\ WatcherSet(lastNotify.formId) \subseteq connections

\* ------------------------------------------------ Spec: the changing tools
\* update_form and delete_form against a Form.io server whose forms other
\* users create, edit and remove at any time, also between the fetch of a
\* tool call and its changing request.
ServerUntouched ==
  UNCHANGED <<now, connections, heartbeatInterval, liveHeartbeats, res,
              formWatchers, connectionForms, connectionActivity,
              pendingNotifications, timers, idleCheckInterval, inflight,
              lastNotify, lastRegister, lastCall, burst, dispatches, streams,
              shutdown, atCall>>

UpstreamEdit(f, form) ==
  /\ upstream' = [upstream EXCEPT ![f] = form]
  /\ UNCHANGED <<tool, relay, client>> /\ ServerUntouched

ToolCalled(name, args) ==
  /\ tool.phase # "sent"
  /\ tool' = IF name = "update_form" THEN update_form(upstream, args)
             ELSE delete_form(upstream, args)
  /\ UNCHANGED <<upstream, relay, client>> /\ ServerUntouched

ToolAnswered ==
  /\ tool.phase = "sent"
  /\ LET r == UpstreamAnswers(upstream, tool)
     IN upstream' = r.upstream /\ tool' = r.tool
  /\ UNCHANGED <<relay, client>> /\ ServerUntouched

ToolArgs == {NoArgs} \cup {Args(f, u) : f \in Forms, u \in Updates}

NextTools ==
  \/ \E f \in Forms, form \in UpstreamForms \cup {NoForm} : UpstreamEdit(f, form)
  \/ \E args \in ToolArgs : ToolCalled("update_form", args)
  \/ \E args \in ToolArgs : ToolCalled("delete_form", args)
  \/ ToolAnswered

SpecTools == Init /\ [][NextTools]_vars

\* the form's title starts with "[MCP] " or its path starts with "mcp-"
Owned(form) ==
  /\ form.exists
  /\ \/ /\ form.title.defined /\ Len(form.title.chars) >= 6
        /\ SubSeq(form.title.chars, 1, 6) = <<"[", "M", "C", "P", "]", " ">>
     \/ /\ form.path.defined /\ Len(form.path.chars) >= 4
        /\ SubSeq(form.path.chars, 1, 4) = <<"m", "c", "p", "-">>

Changing(t) ==
  {i \in DOMAIN t.requests : t.requests[i].method \in {"updateForm", "deleteForm"}}

\* C25: update_form and delete_form send the update or delete request to the
\* Form.io server only after they fetched the form and found that its title
\* starts with "[MCP] " or its path starts with "mcp-"; for any other form
\* the tool fails with an error and changes no form of the server.
C25_ChangeOnlyOwnedForms ==
  /\ [](tool.phase # "idle" =>
          /\ Changing(tool) # {} =>
               /\ Changing(tool) = {2}
               /\ tool.requests[1] = Request("getForm", tool.args.formId)
               /\ tool.requests[2].formId = tool.args.formId
               /\ tool.requests[2].method = "updateForm" <=> tool.name = "update_form"
               /\ Owned(tool.fetched)
          /\ ~Owned(tool.fetched) =>
               tool.phase = "done" /\ tool.threw /\ Changing(tool) = {})
  /\ [][/\ tool.phase # "sent" /\ tool' # tool /\ tool'.args.present =>
             /\ tool'.fetched.exists => tool'.fetched = upstream[tool'.args.formId]
             /\ Owned(upstream[tool'.args.formId]) <=> tool'.phase = "sent"
             /\ upstream' = upstream
        /\ tool' # tool /\ upstream' # upstream =>
             /\ tool.phase = "sent" /\ Owned(tool.fetched)
             /\ \A f \in Forms \ {tool.args.formId} : upstream'[f] = upstream[f]]_vars

\* update_form has changed a form that is MCP-owned by its path alone
C25_Witness ==
  /\ tool.phase = "done" /\ ~tool.threw /\ tool.name = "update_form"
  /\ tool.fetched.path = Str(<<"m", "c", "p", "-", "a">>)
  /\ tool.fetched.title = Str(<<"A", "[", "M", "C", "P", "]", " ">>)
  /\ upstream[tool.args.formId].title = Str(<<"A">>)

\* -------------------------------------------- Spec: change notifications
\* Tool calls in the HTTP server process and in stdio processes change forms
\* and notify; the POST of a stdio process is answered or fails.
ToolCommits(process, f, changeType) ==
  /\ relay.phase # "committed"
  /\ IF changeType = "created" THEN ~upstream[f].exists
     ELSE upstream[f].exists /\ IsMCPForm(upstream[f])
  /\ upstream' = [upstream EXCEPT ![f] = Changed(@, changeType)]
  /\ relay' = Committed(process, f, changeType)
  /\ UNCHANGED <<tool, client>> /\ ServerUntouched

ToolNotifies(outcome) ==
  /\ relay.phase = "committed"
  /\ relay' = NotifyHttpServer(relay, outcome)
  /\ UNCHANGED <<upstream, tool, client>> /\ ServerUntouched

NextRelay ==
  \/ \E f \in Forms, form \in UpstreamForms \cup {NoForm} : UpstreamEdit(f, form)
  \/ \E process \in Processes, f \in Forms, changeType \in ChangeTypes :
       ToolCommits(process, f, changeType)
  \/ \E outcome \in FetchOutcomes : ToolNotifies(outcome)

SpecRelay == Init /\ [][NextRelay]_vars

ClientOnly == UNCHANGED <<upstream, tool, relay>> /\ ServerUntouched

ClientBecomes(p, cl) == client' = [client EXCEPT ![p] = cl] /\ ClientOnly

EventSourceOpens(p) ==
  /\ client[p].eventSource = "connecting"
  /\ ClientBecomes(p, HandleConnectionOpen([client[p] EXCEPT !.eventSource = "open"]))

EventSourceError(p, readyState) ==
  /\ client[p].eventSource \in {"connecting", "open"}
  /\ ClientBecomes(p, HandleConnectionError([client[p] EXCEPT
                                               !.eventSource = readyState]))

ServerClosingEvent(p) ==
  /\ client[p].eventSource = "open"
  /\ ClientBecomes(p, HandleServerClosing(client[p]))

FormDeletedEvent(p) ==
  /\ client[p].eventSource = "open"
  /\ ClientBecomes(p, HandleDeletedEvent(client[p]))

FormUpdateEvent(p) ==
  /\ client[p].eventSource = "open"
  /\ ClientBecomes(p, HandleUpdateEvent(client[p]))

\* window.location.reload(): the page script runs again
Reloads(p) ==
  /\ client[p].reloading
  /\ ClientBecomes(p, PageLoaded)

TimeoutRuns(p, i) == ClientBecomes(p, TimeoutCallback(client[p], i))

ClickReconnect(p) ==
  /\ client[p].reconnectUI
  /\ ClientBecomes(p, ManualReconnect(client[p]))

ClickRetryConnection(p) ==
  /\ client[p].shutdownUI
  /\ ClientBecomes(p, RetryConnection(client[p]))

\* beforeunload: disconnect(); the page may stay
BeforeUnload(p) == ClientBecomes(p, Disconnect(client[p]))

NextClient ==
  \E p \in Pages :
    \/ EventSourceOpens(p)
    \/ EventSourceError(p, "connecting")
    \/ EventSourceError(p, "closed")
    \/ ServerClosingEvent(p)
    \/ FormDeletedEvent(p)
    \/ FormUpdateEvent(p)
    \/ Reloads(p)
    \/ \E i \in 1..Len(client[p].timeouts) : TimeoutRuns(p, i)
    \/ ClickReconnect(p)
    \/ ClickRetryConnection(p)
    \/ BeforeUnload(p)

SpecClient == Init /\ [][NextClient]_vars

IsPrefix(s, t) == Len(s) <= Len(t) /\ s = SubSeq(t, 1, Len(s))

\* C27: the reconnection attempts the client schedules after a connection
\* failed are delayed by 1 s, 2 s, 4 s, 8 s and 16 s, never more; when the
\* connection fails after 5 attempts in a row the client schedules nothing,
\* its state is disconnected and the reconnect button is shown, and no
\* attempt is made while the button is shown; an open sets the attempt
\* counter to 0 and the delay to 1 s.
C27_ExponentialBackoff ==
  /\ [](\A p \in Pages :
          /\ IsPrefix(client[p].scheduled, <<1000, 2000, 4000, 8000, 16000>>)
          /\ Len(client[p].scheduled) = client[p].reconnectAttempts
          /\ client[p].reconnectDelay <= 16000
          /\ \A i \in 1..Len(client[p].timeouts) : client[p].timeouts[i] <= 16000
          /\ client[p].reconnectUI =>
               /\ client[p].timeouts = <<>>
               /\ client[p].eventSource \in {"closed", "null"}
               /\ client[p].connectionState = "disconnected")
  /\ [][\A p \in Pages :
          /\ /\ client[p].eventSource \in {"connecting", "open"}
             /\ client'[p].eventSource = "closed"
             /\ client[p].reconnectAttempts = 5
             => /\ client'[p].timeouts = client[p].timeouts
                /\ client'[p].scheduled = client[p].scheduled
                /\ client'[p].connectionState = "disconnected"
                /\ client'[p].reconnectUI
          /\ client[p].eventSource = "connecting" /\ client'[p].eventSource = "open"
             => client'[p].reconnectAttempts = 0
                  /\ client'[p].reconnectDelay = 1000]_vars

\* the connection of a page failed after the fifth attempt, which was
\* delayed by 16 s
C27_Witness ==
  \E p \in Pages :
    /\ client[p].scheduled = <<1000, 2000, 4000, 8000, 16000>>
    /\ client[p].reconnectUI /\ client[p].connectionState = "disconnected"
    /\ client[p].eventSource = "closed" /\ client[p].timeouts = <<>>

\* ------------------------------------------------ Spec: the Router cleaned
\* The preview streams, notifications, timers and sweeps of the running
\* server, and cleanup() of the Router at any moment. burst counts the
\* notifyFormUpdated calls made since the last cleanup.
CleanupSeen ==
  /\ CallNotifierCleanup
  /\ lastCall' = [NoCall EXCEPT !.op = "cleanup", !.count = Cardinality(timers),
                                !.before = Snapshot]
  /\ lastNotify' = NoNotify /\ lastRegister' = NoRegister
  /\ burst' = [f \in Forms |-> NoBurst]
  /\ Unlogged /\ Elsewhere

NextCleanup ==
  \/ Tick /\ NoCallSeen
  \/ \E c \in Conns, f \in Forms, outcome \in WriteOutcomes :
       OpenPreviewStream(c, f, outcome) /\ NoCallSeen
  \/ \E c \in Conns : StreamClosed(c) /\ NoCallSeen
  \/ \E f \in NotifiedForms, p \in Payloads : ObservedUpdated(f, p)
  \/ \E f \in NotifiedForms : \E oc \in WriteChoices(f) :
       ObservedCreated(f, "p1", oc)
  \/ \E f \in NotifiedForms : \E oc \in WriteChoices(f) : ObservedDeleted(f, oc)
  \/ \E tm \in timers : \E oc \in WriteChoices(tm.formId) : ObservedTimer(tm, oc)
  \/ IdleSweep /\ Called([NoCall EXCEPT !.op = "idleSweep"])
  \/ CleanupSeen

SpecCleanup == Init /\ [][NextCleanup]_vars

\* C28: cleanup() of the Router leaves no debounce timer and no idle-sweep
\* timer running and empties the forward, reverse and activity maps; after
\* it no idle sweep runs, and a timer callback only runs for a
\* notifyFormUpdated call made after the cleanup.
C28_CleanupCancelsEverything ==
  /\ [][lastCall'.op = "cleanup" =>
          /\ timers' = {} /\ DOMAIN pendingNotifications' = {}
          /\ ~idleCheckInterval'
          /\ DOMAIN formWatchers' = {} /\ DOMAIN connectionForms' = {}
          /\ DOMAIN connectionActivity' = {}]_vars
  /\ [][~idleCheckInterval =>
          ~idleCheckInterval' /\ lastCall'.op # "idleSweep"]_vars
  /\ [](lastNotify.op = "timer" => lastNotify.calls >= 1)

\* cleanup() was called while a debounce timer was pending and a connection
\* was watching
C28_Witness ==
  /\ lastCall.op = "cleanup" /\ lastCall.count >= 1
  /\ DOMAIN lastCall.before.connectionForms # {}
  /\ timers = {} /\ ~idleCheckInterval

\* ----------------------------------------------------- Spec: the shutdown
\* The HTTP server with its SSE streams, and SIGINT / SIGTERM at any moment
\* until the process has exited. After httpServer.close() no connection is
\* accepted; a request on a connection that is still open can be served
\* until the exit.
ShutdownSeen(call) ==
  /\ lastCall' = call /\ lastNotify' = NoNotify /\ lastRegister' = NoRegister
  /\ UNCHANGED <<burst, upstream, tool, relay, client, atCall>> /\ Unlogged

Signal(oc) ==
  /\ ~shutdown.exited /\ shutdown.signals < MaxSignals
  /\ LET r == GracefulShutdown(shutdown, Registry, oc)
     IN shutdown' = r.shutdown /\ SetRegistry(r.registry)
  /\ RouterUntouched
  /\ ShutdownSeen([NoCall EXCEPT !.op = "signal"])

\* process.exit: in the callback of httpServer.close or after 5 seconds
Exit ==
  /\ shutdown.isShuttingDown /\ ~shutdown.exited
  /\ shutdown' = [shutdown EXCEPT !.exited = TRUE]
  /\ UNCHANGED <<connections, heartbeatInterval, liveHeartbeats, res>>
  /\ RouterUntouched
  /\ ShutdownSeen(NoCall)

Alive(step) == ~shutdown.exited /\ step /\ Called(NoCall)

NextShutdown ==
  \/ Alive(Tick)
  \/ \E c \in Conns, outcome \in WriteOutcomes : Alive(OpenSseStream(c, outcome))
  \/ \E c \in Conns : Alive(StreamClosed(c))
  \/ \E c \in Conns, outcome \in WriteOutcomes : Alive(CallSendMessage(c, outcome))
  \/ \E oc \in RegistryWriteChoices : Alive(HeartbeatTick(oc))
  \/ \E oc \in RegistryWriteChoices : Signal(oc)
  \/ Exit

SpecShutdown == Init /\ [][NextShutdown]_vars

C31_MissingMethodNotDispatched ==
  (Answered /\ lastCall.request.method = None) =>
     /\ lastCall.invoked = <<>>
     /\ ~lastCall.threw
     /\ lastCall.response.jsonrpc = "2.0"
     /\ lastCall.response.code # 0
     /\ lastCall.response.result = None

\* C31 happens: the message {id: 1} without a method was answered on the
\* direct endpoint.
C31_Witness ==
  /\ lastCall.op = "handleRequestSync"
  /\ lastCall.request = [method |-> None, id |-> Id(1)]
  /\ lastCall.response.message = "Invalid JSON-RPC message: missing method"

\* C32: every error response handleRequestSync builds itself (method not
\* found, missing method, handler threw) carries the id of its request, for
\* every id including 0, and carries null only when the request has no id.
C32_ErrorCarriesRequestId ==
  (Answered /\ lastCall.response.code \in {MethodNotFound, InternalError}) =>
     /\ lastCall.request.id # NoId => lastCall.response.id = lastCall.request.id
     /\ lastCall.response.id = NullId => lastCall.request.id = NoId

\* C33: when the connection was removed from the Registry while
\* handleRequest awaited the handler, handleRequest resolves, writes nothing
\* to any stream, does not register the connection again, and the step
\* changes nothing but the end of the waiting call.
C33_ResponseDroppedWhenRemoved ==
  [][(lastCall'.op = "handleRequestRest" /\ lastCall'.conn \notin connections) =>
       /\ ~lastCall'.threw /\ ~lastCall'.ok
       /\ lastCall'.frames = <<>>
       /\ lastCall'.conn \notin connections'
       /\ UNCHANGED <<connections, heartbeatInterval, liveHeartbeats, res,
                      formWatchers, connectionForms, connectionActivity,
                      upstream>>
       /\ Len(inflight') = Len(inflight) - 1]_vars

\* C33 happens: the stream of the caller closed while its tools/call was
\* running, the tool request resolved and the response went nowhere.
C33_Witness ==
  /\ lastCall.op = "handleRequestRest" /\ lastCall.run = "resolves"
  /\ lastCall.conn \notin connections /\ res[lastCall.conn] = "none"
  /\ lastCall.frames = <<>> /\ ~lastCall.threw /\ inflight = <<>>
\* ------------------------------------------ SpecDebounce: the recipients
\* The Router and the Registry's heartbeat, with notifications for form f1.
\* lastNotify records the notify call or timer callback of the last step,
\* lastCall a heartbeat tick or the call that registers a connection or
\* updates its activity, and atCall[f] the connections that watched f at
\* the latest notifyFormUpdated(f) call.
DebounceSeen(n, call, calledFor) ==
  /\ lastNotify' = n /\ lastCall' = call /\ atCall' = calledFor
  /\ lastRegister' = NoRegister
  /\ UNCHANGED <<burst, upstream, tool, relay, client, shutdown>> /\ Unlogged

Quiet == DebounceSeen(NoNotify, NoCall, atCall)

UpdatedSeen(f, p, calledFor) ==
  /\ NotifyFormUpdated(f, p, NoWrites)
  /\ DebounceSeen(Seen("notifyFormUpdated", f,
                       NotifyFormUpdatedOp(Router, Registry, Timers, f, p,
                                           NoWrites, now),
                       NoBurst, {}),
                  NoCall, calledFor)

CreatedSeen(f, p, oc) ==
  /\ NotifyFormCreated(f, p, oc)
  /\ DebounceSeen(Seen("notifyFormCreated", f,
                       NotifyFormCreatedOp(Router, Registry, Timers, f, p, oc, now),
                       NoBurst, {}),
                  NoCall, atCall)

DeletedSeen(f, oc) ==
  /\ NotifyFormDeleted(f, oc)
  /\ DebounceSeen(Seen("notifyFormDeleted", f,
                       NotifyFormDeletedOp(Router, Registry, Timers, f, None, oc, now),
                       NoBurst, {}),
                  NoCall, atCall)

TimerSeen(tm, oc) ==
  /\ TimerFires(tm, oc)
  /\ DebounceSeen(Seen("timer", tm.formId,
                       TimerCallback(Router, Registry, Timers, tm, oc),
                       NoBurst, {tm}),
                  NoCall, atCall)

HeartbeatSeen(oc) ==
  /\ HeartbeatTick(oc)
  /\ LET r == Heartbeat(Registry, oc)
     IN DebounceSeen(NoNotify,
                     [NoCall EXCEPT !.op = "heartbeat", !.count = r.result,
                                    !.writes = r.writes, !.outcomes = oc],
                     atCall)

\* a step of operation op for connection c that is no notification
OpSeen(op, c) ==
  DebounceSeen(NoNotify, [NoCall EXCEPT !.op = op, !.conn = c], atCall)

NextDebounce ==
  \/ Tick /\ Quiet
  \/ \E c \in Conns, f \in Forms :
       OpenPreviewStream(c, f, "ok") /\ OpSeen("open", c)
  \/ \E c \in Conns : StreamClosed(c) /\ Quiet
  \/ \E c \in Conns, f \in Forms : Register(c, f) /\ OpSeen("register", c)
  \/ \E c \in Conns : Unregister(c) /\ Quiet
  \/ \E c \in Conns : UpdateActivity(c) /\ OpSeen("updateActivity", c)
  \/ \E f \in NotifiedForms :
       UpdatedSeen(f, "p1", [atCall EXCEPT ![f] = WatcherSet(f)])
  \/ \E f \in NotifiedForms : \E oc \in WriteChoices(f) : CreatedSeen(f, "p1", oc)
  \/ \E f \in NotifiedForms : \E oc \in WriteChoices(f) : DeletedSeen(f, oc)
  \/ \E tm \in timers : \E oc \in WriteChoices(tm.formId) : TimerSeen(tm, oc)
  \/ \E oc \in RegistryWriteChoices : HeartbeatSeen(oc)

SpecDebounce == Init /\ [][NextDebounce]_vars

\* ------------------------------------------------ SpecForms: the two forms
\* The Router with notifications for both forms; lastNotify records the
\* notify call or timer callback of the last step.
NextForms ==
  \/ Tick /\ Quiet
  \/ \E c \in Conns, f \in Forms : OpenPreviewStream(c, f, "ok") /\ Quiet
  \/ \E c \in Conns : StreamClosed(c) /\ Quiet
  \/ \E c \in Conns, f \in Forms : Register(c, f) /\ Quiet
  \/ \E c \in Conns : Unregister(c) /\ Quiet
  \/ \E c \in Conns : UpdateActivity(c) /\ Quiet
  \/ \E f \in Forms : UpdatedSeen(f, "p1", atCall)
  \/ \E f \in Forms : \E oc \in WriteChoices(f) : CreatedSeen(f, "p1", oc)
  \/ \E f \in Forms : \E oc \in WriteChoices(f) : DeletedSeen(f, oc)
  \/ \E tm \in timers : \E oc \in WriteChoices(tm.formId) : TimerSeen(tm, oc)

SpecForms == Init /\ [][NextForms]_vars

\* the connections a run wrote a frame of event ev to
Recipients(run, ev) ==
  {run.attempts[i].conn : i \in {j \in DOMAIN run.attempts :
                                   /\ run.attempts[j].event = ev
                                   /\ run.attempts[j].result \in {"sent", "full"}}}

\* C34: the recipients of a debounced update are the watchers the form has
\* when its timer fires, not those it had when notifyFormUpdated was called:
\* the callback attempts exactly the connections that watch the form at that
\* moment, so a connection registered since the call has the form-update
\* frame written to its stream (when the Registry has the stream) and a
\* connection unregistered since the call is not attempted at all.
C34_RecipientsAtFiring ==
  [][lastNotify'.op = "timer" =>
       LET f == lastNotify'.formId
           run == lastNotify'.runs[1]
       IN /\ Len(lastNotify'.runs) = 1
          /\ {run.attempts[i].conn : i \in DOMAIN run.attempts} = WatcherSet(f)
          /\ \A c \in WatcherSet(f) \ atCall[f] :
               /\ Cardinality(AttemptsTo(run, c)) = 1
               /\ \A i \in AttemptsTo(run, c) :
                    /\ run.attempts[i].event = "form-update"
                    /\ c \in connections => run.attempts[i].result # "notfound"
          /\ \A c \in atCall[f] \ WatcherSet(f) : AttemptsTo(run, c) = {}
    ]_vars

\* C34 happens: c1 watched f1 when notifyFormUpdated(f1) was called and was
\* unregistered before the timer fired, c2 was registered in between: the
\* frame went to c2 alone.
C34_Witness ==
  /\ lastNotify.op = "timer" /\ lastNotify.formId = "f1"
  /\ atCall["f1"] = {"c1"} /\ lastNotify.watchers = {"c2"}
  /\ Recipients(lastNotify.runs[1], "form-update") = {"c2"}
  /\ AttemptsTo(lastNotify.runs[1], "c1") = {}

\* ---------------------------------------------- SpecTimers: timers run out
\* The Router with notifications for form f1 and cleanup() at any moment.
\* The clock of the model stops at MaxTime, so notifyFormUpdated is called
\* while the timer it sets is due by then.  The event loop runs a timer
\* that is due, and time passes.
UpdatedInTime(f, p) ==
  /\ now + DebounceInterval <= MaxTime
  /\ UpdatedSeen(f, p, atCall)

NextTimers ==
  \/ Tick /\ Quiet
  \/ \E c \in Conns, f \in Forms : OpenPreviewStream(c, f, "ok") /\ Quiet
  \/ \E c \in Conns : StreamClosed(c) /\ Quiet
  \/ \E f \in NotifiedForms, p \in Payloads : UpdatedInTime(f, p)
  \/ \E f \in NotifiedForms : \E oc \in WriteChoices(f) : DeletedSeen(f, oc)
  \/ \E tm \in timers : \E oc \in WriteChoices(tm.formId) : TimerSeen(tm, oc)
  \/ CleanupSeen

SpecTimers == Init /\ [][NextTimers]_vars

SpecTimersFair ==
  /\ SpecTimers
  /\ WF_vars(Tick /\ Quiet)
  /\ \A f \in Forms :
       WF_vars(\E tm \in timers : \E oc \in WriteChoices(tm.formId) :
                 tm.formId = f /\ TimerSeen(tm, oc))

\* the timers notifyFormUpdated can set
DebounceTimers ==
  [formId : NotifiedForms, changeType : {"updated"}, formData : Payloads,
   due : 0..MaxTime]

\* C35: a pending debounce timer stops being pending; it does so because
\* its callback ran or because notifyFormUpdated or notifyFormDeleted for
\* its form or cleanup() cancelled it, so a timer that is not cancelled
\* fires.  The callback runs once: the timer is not live afterwards and the
\* pending slot of its form is empty.  When nobody watches the form the
\* callback writes to no stream and leaves the Router's indices and the
\* Registry as they were.
C35_TimerFiresOnce ==
  /\ \A tm \in DebounceTimers : (tm \in timers) ~> (tm \notin timers)
  /\ [][\A tm \in timers \ timers' :
          \/ lastNotify'.op = "timer" /\ lastNotify'.formId = tm.formId
          \/ /\ lastNotify'.op \in {"notifyFormUpdated", "notifyFormDeleted"}
             /\ lastNotify'.formId = tm.formId
          \/ lastCall'.op = "cleanup"]_vars
  /\ [][lastNotify'.op = "timer" =>
          LET f == lastNotify'.formId
          IN /\ f \in DOMAIN pendingNotifications
             /\ timers' = timers \ {pendingNotifications[f]}
             /\ f \notin DOMAIN pendingNotifications'
             /\ Len(lastNotify'.runs) = 1
             /\ WatcherSet(f) = {} =>
                  /\ lastNotify'.runs[1].attempts = <<>>
                  /\ UNCHANGED <<formWatchers, connectionForms,
                                 connectionActivity, connections, res,
                                 heartbeatInterval, liveHeartbeats>>]_vars

\* C35 happens: the timer of f1 has fired while nobody watched f1, and a
\* connection watches the other form.
C35_Witness ==
  /\ lastNotify.op = "timer" /\ lastNotify.formId = "f1"
  /\ lastNotify.watchers = {} /\ lastNotify.runs[1].attempts = <<>>
  /\ "f1" \notin DOMAIN pendingNotifications /\ timers = {}
  /\ DOMAIN connectionForms # {}

\* the maps m and n have the same entry, or both none, for key k
SameAt(m, n, k) ==
  /\ (k \in DOMAIN m) = (k \in DOMAIN n)
  /\ k \in DOMAIN m /\ k \in DOMAIN n => m[k] = n[k]

\* the live timers of form f
TimersOf(T, f) == {tm \in T : tm.formId = f}

\* C36: the forms are isolated from each other.  A form has at most one
\* live debounce timer, the one in its pending slot.  A notify call for
\* form f and the callback of f's timer leave, for every other form g, the
\* pending slot and the live timer of g, the watcher set of g and the
\* activity timestamps of g's watchers as they were, and make no send
\* attempt to a connection that watches g.
C36_FormsIsolated ==
  /\ [](\A f \in Forms :
          /\ Cardinality(TimersOf(timers, f)) <= 1
          /\ TimersOf(timers, f) =
               IF f \in DOMAIN pendingNotifications
               THEN {pendingNotifications[f]} ELSE {})
  /\ [][lastNotify'.op # None =>
          \A g \in Forms \ {lastNotify'.formId} :
            /\ SameAt(pendingNotifications', pendingNotifications, g)
            /\ TimersOf(timers', g) = TimersOf(timers, g)
            /\ SameAt(formWatchers', formWatchers, g)
            /\ \A c \in WatcherSet(g) :
                 /\ SameAt(connectionActivity', connectionActivity, c)
                 /\ SameAt(connectionForms', connectionForms, c)
                 /\ res'[c] = res[c]
                 /\ \A i \in DOMAIN lastNotify'.runs :
                      AttemptsTo(lastNotify'.runs[i], c) = {}]_vars

\* C36 happens: the timer of f1 has fired and the frame was written to c1,
\* while c2 watches f2 and the timer of f2 is pending.
C36_Witness ==
  /\ lastNotify.op = "timer" /\ lastNotify.formId = "f1"
  /\ Recipients(lastNotify.runs[1], "form-update") = {"c1"}
  /\ WatcherSet("f2") = {"c2"} /\ "c2" \in connections
  /\ "c2" \in DOMAIN connectionActivity
  /\ "f2" \in DOMAIN pendingNotifications

\* C37: the activity index and the reverse index have the same key set in
\* every state.  registerPreviewConnection puts the connection into both,
\* unregisterPreviewConnection takes it out of both, and updateActivity for
\* a connection that is not registered creates no entry and changes
\* nothing.
C37_ActivityKeysAreReverseKeys ==
  /\ [](DOMAIN connectionActivity = DOMAIN connectionForms)
  /\ [][lastCall'.op = "register" =>
          /\ lastCall'.conn \in DOMAIN connectionForms'
          /\ lastCall'.conn \in DOMAIN connectionActivity']_vars
  /\ [][lastCall'.op = "unregister" =>
          /\ lastCall'.conn \notin DOMAIN connectionForms'
          /\ lastCall'.conn \notin DOMAIN connectionActivity']_vars
  /\ [][(lastCall'.op = "updateActivity"
         /\ lastCall'.conn \notin DOMAIN connectionForms) =>
          /\ lastCall'.conn \notin DOMAIN connectionActivity'
          /\ UNCHANGED <<formWatchers, connectionForms, connectionActivity>>]_vars

\* C37 happens: updateActivity was called for a connection that is not
\* registered while another connection is.
C37_Witness ==
  /\ lastCall.op = "updateActivity"
  /\ lastCall.conn \notin DOMAIN connectionForms
  /\ DOMAIN connectionActivity # {}

\* ------------------------------------------- SpecEvict: removed connections
\* The preview streams with the Registry's heartbeat and sendMessage, which
\* remove a connection whose write throws, and the notifications for form
\* f1.  The 'close' event of a stream that was ended is emitted.
SendMessageSeen(c, outcome) ==
  /\ CallSendMessage(c, outcome)
  /\ LET r == SendMessage(Registry, c, outcome)
     IN DebounceSeen(NoNotify,
                     [NoCall EXCEPT !.op = "sendMessage", !.conn = c,
                                    !.ok = r.result, !.writes = r.writes,
                                    !.outcomes[c] = outcome],
                     atCall)

StreamCloses(c) == StreamClosed(c) /\ Quiet

NextEvict ==
  \/ Tick /\ Quiet
  \/ \E c \in Conns, f \in Forms : OpenPreviewStream(c, f, "ok") /\ Quiet
  \/ \E c \in Conns : StreamCloses(c)
  \/ \E c \in Conns, outcome \in WriteOutcomes : SendMessageSeen(c, outcome)
  \/ \E oc \in RegistryWriteChoices : HeartbeatSeen(oc)
  \/ \E f \in NotifiedForms : UpdatedSeen(f, "p1", atCall)
  \/ \E f \in NotifiedForms : \E oc \in WriteChoices(f) : CreatedSeen(f, "p1", oc)
  \/ \E f \in NotifiedForms : \E oc \in WriteChoices(f) : DeletedSeen(f, oc)
  \/ \E tm \in timers : \E oc \in WriteChoices(tm.formId) : TimerSeen(tm, oc)

SpecEvict == Init /\ [][NextEvict]_vars

SpecEvictFair ==
  SpecEvict /\ \A c \in Conns : WF_vars(res[c] = "ended" /\ StreamCloses(c))

\* connection c has a stream, the Registry has dropped it and the Router
\* still has it
LeftRegistry(c) ==
  res[c] # "none" /\ c \notin connections /\ c \in DOMAIN connectionForms

\* C38: a preview connection that the Registry removed on its own (a write
\* of sendMessage or of the heartbeat threw) does not stay in the Router's
\* indices forever: the removal ends the stream, and the close callback of
\* the stream unregisters the connection, unless a dispatch for its form
\* has found it dead and unregistered it before.
C38_RemovedIsUnregistered ==
  /\ \A c \in Conns : LeftRegistry(c) ~> (c \notin DOMAIN connectionForms)
  /\ [][\A c \in Conns :
          (c \in connections /\ c \notin connections'
           /\ lastCall'.op \in {"sendMessage", "heartbeat"}) =>
             res'[c] = "ended"]_vars
  /\ [][\A c \in Conns :
          (LeftRegistry(c)
           /\ lastNotify'.op \in {"notifyFormCreated", "notifyFormDeleted", "timer"}
           /\ c \in WatcherSet(lastNotify'.formId)) =>
             c \notin DOMAIN connectionForms']_vars

\* C38 happens: the heartbeat has removed c1, whose write threw, and the
\* Router still has c1.
C38_Witness ==
  /\ lastCall.op = "heartbeat" /\ lastCall.count = 1
  /\ LeftRegistry("c1") /\ res["c1"] = "ended"
  /\ "c1" \in WatcherSet("f1")

\* C39: delivering events is not activity.  A dispatch (notifyFormCreated,
\* notifyFormDeleted, the callback of a debounce timer) and a heartbeat
\* tick set no activity timestamp: every connection that is still tracked
\* after the step has the timestamp it had before, and no connection
\* becomes tracked.  A timestamp is only set by registerPreviewConnection
\* (called by the route that opens a preview stream) and by updateActivity,
\* for the connection they are called for.
C39_DeliveryIsNotActivity ==
  /\ [][(lastNotify'.op # None \/ lastCall'.op = "heartbeat") =>
          /\ DOMAIN connectionActivity' \subseteq DOMAIN connectionActivity
          /\ \A c \in DOMAIN connectionActivity' :
               connectionActivity'[c] = connectionActivity[c]]_vars
  /\ [][\A c \in DOMAIN connectionActivity' :
          (c \notin DOMAIN connectionActivity
           \/ connectionActivity'[c] # connectionActivity[c]) =>
             /\ lastCall'.op \in {"open", "register", "updateActivity"}
             /\ lastCall'.conn = c
             /\ connectionActivity'[c] = now]_vars

\* C39 happens: a timer callback has written the frame to c1, whose last
\* activity is longer ago than the idle threshold, and c1 is as overdue as
\* before.
C39_Witness ==
  /\ lastNotify.op = "timer"
  /\ Recipients(lastNotify.runs[1], "form-update") = {"c1"}
  /\ "c1" \in DOMAIN connectionActivity
  /\ now - connectionActivity["c1"] > IdleTimeout

\* C40: after disconnect() the client opens no connection unless
\* connectToUpdates() or manualReconnect() is called explicitly afterwards,
\* also when a timeout of reconnectWithBackoff was pending at the
\* disconnect: a step that gives a disconnected client an EventSource is a
\* click on a reconnect button (which leaves the pending timeouts alone) or
\* the load of the page, never the run of a pending timeout.
C40_NoConnectionAfterDisconnect ==
  [][\A p \in Pages :
       (client[p].isManualDisconnect /\ client[p].eventSource = "null"
        /\ client'[p].eventSource # "null") =>
         \/ client'[p].timeouts = client[p].timeouts
         \/ client'[p] = PageLoaded]_vars

====
